---------------------------- MODULE Spec2Model ----------------------------
(***************************************************************************)
(* A model of acs_cli: the paginating fetchers of the four upstream APIs,  *)
(* the Census batch splitter, the county aggregators, the PLACES pivot,    *)
(* the cross-source merge, the CSV writers, the info command, the          *)
(* resolvers of the measure groups and format_value.                       *)
(*                                                                         *)
(* Python strings are sequences of one-character strings, so that the      *)
(* string operations of the source (replace, re.sub, lower, title, strip,  *)
(* ordinal comparison, float) are computed and not assumed.                *)
(***************************************************************************)
EXTENDS Integers, Sequences, FiniteSets, TLC

(***************************************************************************)
(* The state.  The operations fall into groups that share no state: a      *)
(* fetch, an aggregation; the variables of the other groups are at rest    *)
(* while the operations of one group run.                                  *)
(***************************************************************************)
\* one fetch: fetch_hospital_data, fetch_places_data, fetch_hpsa_data or
\* fetch_acs_data
VARIABLES
    fetcher,      \* the function that runs: "cms", "places", "hrsa", "census", "none"
    fpc,          \* "loop": in the loop, "done": returned, "raised": an error left it
    upstreamN,    \* the number of records the upstream holds
    srvCap,       \* the most records the upstream puts in one response
    offset,       \* the local offset
    all_records,  \* the local all_records / all_features
    requests,     \* every request sent: its offset (Census: its chunk index), the
                  \* status of its response, (Census) the counties of its response
                  \* and (HRSA) the exceededTransferLimit of its response
    codesN,       \* Census: len(all_codes)
    chunkIdx,     \* Census: the index of the next chunk
    merged,       \* Census: the local merged
    fresult,      \* what the fetch returned; NoResult before it returns
    ferr          \* the error the fetch raised; NoError when none

fetchVars ==
    << fetcher, fpc, upstreamN, srvCap, offset, all_records, requests,
       codesN, chunkIdx, merged, fresult, ferr >>

\* one aggregation: _aggregate_hospitals_by_county, _aggregate_hpsa_by_county,
\* _pivot_rows or fetch_shortage_data
VARIABLES
    akind,      \* the aggregation: "hospitals", "hpsa", "pivot", "shortage", "none"
    aprefix,    \* the prefix argument of _aggregate_hpsa_by_county
    arecords,   \* the list of raw records it is called on; fetch_shortage_data:
                \* the features of the primary care layer
    amental,    \* fetch_shortage_data: the features of the mental health layer
    apc,        \* "call": at the call, "done": returned
    aout        \* the rows it returned; NoResult before it returns

aggVars == << akind, aprefix, arecords, amental, apc, aout >>

\* one command that writes rows: query, places or access
VARIABLES
    ocmd,           \* the command: "query", "places" or "access"
    oyears,         \* query: --years, None when not given
    oshow_year,     \* query: the local show_year
    orows,          \* query, places: the rows the fetch returned
    ovariables,     \* query, places: the variables or measures resolved
    ocounty,        \* --county, None when not given
    osort,          \* --sort, None when not given
    ogroups,        \* access: the groups given
    oupstream,      \* the records each upstream holds
    opc,            \* where the command is
    cms_rows,       \* access: the rows of fetch_access_data
    hrsa_rows,      \* access: the rows of fetch_shortage_data
    omerged,        \* access: the rows merged by county
    oresult,        \* what was written
    ostderr         \* the message the command echoed to stderr, empty when none

outVars == << ocmd, oyears, oshow_year, orows, ovariables, ocounty, osort, ogroups,
              oupstream, opc, cms_rows, hrsa_rows, omerged, oresult, ostderr >>

\* one info command
VARIABLES
    county_name,    \* the name given
    iupstream,      \* what each upstream holds
    ipc,            \* where the command is: the source it comes to, "done"
                    \* (exit code 0) or "exit1"
    matches,        \* the Census rows that match the name
    iwritten,       \* the CSV rows written
    iattempted,     \* the sources fetched so far, in order
    ifailed         \* the secondary sources that raised

infoVars == << county_name, iupstream, ipc, matches, iwritten, iattempted, ifailed >>

\* one call of a resolver: resolve_measures, resolve_access_measures or
\* resolve_hpsa_measures
VARIABLES
    rsource,        \* the resolver: "places", "cms", "hrsa", "none"
    rgroups,        \* the list of names it is called on
    rpc,            \* "call": at the call, "done": returned, "raised": ValueError
    rmeasures       \* the measures it returned

resVars == << rsource, rgroups, rpc, rmeasures >>

\* one call of format_value
VARIABLES
    vvalue,         \* the value it is called on
    vfmt,           \* the format kind it is called on
    vpc,            \* "call": at the call, "done": returned
    vout            \* the string it returned

fmtVars == << vvalue, vfmt, vpc, vout >>

vars == << fetchVars, aggVars, outVars, infoVars, resVars, fmtVars >>

\* the variables an operation of a group leaves alone
fetchRest == << aggVars, outVars, infoVars, resVars, fmtVars >>
aggRest == << fetchVars, outVars, infoVars, resVars, fmtVars >>
outRest == << fetchVars, aggVars, infoVars, resVars, fmtVars >>
infoRest == << fetchVars, aggVars, outVars, resVars, fmtVars >>
resRest == << fetchVars, aggVars, outVars, infoVars, fmtVars >>
fmtRest == << fetchVars, aggVars, outVars, infoVars, resVars >>

(***************************************************************************)
(* Bounds of the model.                                                    *)
(***************************************************************************)
\* the upstream holds up to MaxPages full pages, give or take MaxDelta records
MaxPages == 2
MaxDelta == 1
\* the Census variable list spans up to MaxChunks chunks of MAX_VARS_PER_CALL
MaxChunks == 2

(***************************************************************************)
(* Strings.                                                                *)
(***************************************************************************)
\* the characters of the model in code-point order
AsciiOrder ==
    << " ", "'", ",", "-", ".",
       "0", "1", "2", "3", "4", "5", "6", "7", "8", "9",
       "A", "B", "C", "D", "E", "F", "G", "H", "I", "J", "K", "L", "M",
       "N", "O", "P", "Q", "R", "S", "T", "U", "V", "W", "X", "Y", "Z",
       "_",
       "a", "b", "c", "d", "e", "f", "g", "h", "i", "j", "k", "l", "m",
       "n", "o", "p", "q", "r", "s", "t", "u", "v", "w", "x", "y", "z" >>

UpperChars ==
    << "A", "B", "C", "D", "E", "F", "G", "H", "I", "J", "K", "L", "M",
       "N", "O", "P", "Q", "R", "S", "T", "U", "V", "W", "X", "Y", "Z" >>

LowerChars ==
    << "a", "b", "c", "d", "e", "f", "g", "h", "i", "j", "k", "l", "m",
       "n", "o", "p", "q", "r", "s", "t", "u", "v", "w", "x", "y", "z" >>

DigitChars == << "0", "1", "2", "3", "4", "5", "6", "7", "8", "9" >>

IndexIn(c, chars) ==
    IF \E i \in 1..Len(chars) : chars[i] = c
    THEN CHOOSE i \in 1..Len(chars) : chars[i] = c
    ELSE 0

Ord(c) == IndexIn(c, AsciiOrder)

IsUpper(c) == IndexIn(c, UpperChars) > 0
IsLower(c) == IndexIn(c, LowerChars) > 0
IsDigit(c) == IndexIn(c, DigitChars) > 0
IsAlpha(c) == IsUpper(c) \/ IsLower(c)
IsSpace(c) == c = " "
\* \w of the re module
IsWordChar(c) == IsAlpha(c) \/ IsDigit(c) \/ c = "_"

LowerChar(c) == IF IsUpper(c) THEN LowerChars[IndexIn(c, UpperChars)] ELSE c
UpperChar(c) == IF IsLower(c) THEN UpperChars[IndexIn(c, LowerChars)] ELSE c

\* str.lower, str.upper
Lower(s) == [i \in 1..Len(s) |-> LowerChar(s[i])]
Upper(s) == [i \in 1..Len(s) |-> UpperChar(s[i])]

\* str.title: a letter is upper-cased after a non-letter and lower-cased after a letter
Title(s) ==
    [i \in 1..Len(s) |->
        IF i = 1 \/ ~IsAlpha(s[i - 1]) THEN UpperChar(s[i]) ELSE LowerChar(s[i])]

\* s[i:], 0-based as in Python
Drop(s, i) == IF i >= Len(s) THEN << >> ELSE SubSeq(s, i + 1, Len(s))
\* s[:i]
Take(s, i) == IF i <= 0 THEN << >> ELSE SubSeq(s, 1, IF i > Len(s) THEN Len(s) ELSE i)

\* s.startswith(p, i), i 0-based
StartsWithAt(s, p, i) ==
    /\ i + Len(p) <= Len(s)
    /\ \A k \in 1..Len(p) : s[i + k] = p[k]

EndsWith(s, p) == Len(p) <= Len(s) /\ StartsWithAt(s, p, Len(s) - Len(p))

\* sub in s
Contains(sub, s) == \E i \in 0..Len(s) : StartsWithAt(s, sub, i)

\* str.strip
RECURSIVE LStrip(_)
LStrip(s) == IF s # << >> /\ IsSpace(Head(s)) THEN LStrip(Tail(s)) ELSE s

RECURSIVE RStrip(_)
RStrip(s) ==
    IF s # << >> /\ IsSpace(s[Len(s)]) THEN RStrip(SubSeq(s, 1, Len(s) - 1)) ELSE s

Strip(s) == RStrip(LStrip(s))

\* str.replace(old, new) for a non-empty old: non-overlapping, left to right
RECURSIVE Replace(_, _, _)
Replace(s, old, new) ==
    IF s = << >> THEN << >>
    ELSE IF StartsWithAt(s, old, 0) THEN new \o Replace(Drop(s, Len(old)), old, new)
    ELSE << Head(s) >> \o Replace(Tail(s), old, new)

\* ordinal comparison of two strings, a < b
RECURSIVE StrLess(_, _)
StrLess(a, b) ==
    IF b = << >> THEN FALSE
    ELSE IF a = << >> THEN TRUE
    ELSE IF Head(a) = Head(b) THEN StrLess(Tail(a), Tail(b))
    ELSE Ord(Head(a)) < Ord(Head(b))

StrLeq(a, b) == a = b \/ StrLess(a, b)

(***************************************************************************)
(* String literals of the source and of its tests.                         *)
(***************************************************************************)
\* the field names of the records and of the rows
K ==
    [NAME |-> << "N", "A", "M", "E" >>,
     state |-> << "s", "t", "a", "t", "e" >>,
     county |-> << "c", "o", "u", "n", "t", "y" >>,
     year |-> << "y", "e", "a", "r" >>,
     countyparish |-> << "c", "o", "u", "n", "t", "y", "p", "a", "r", "i", "s", "h" >>,
     hospital_type |-> << "h", "o", "s", "p", "i", "t", "a", "l", "_", "t", "y", "p", "e" >>,
     emergency_services |-> << "e", "m", "e", "r", "g", "e", "n", "c", "y", "_", "s", "e", "r", "v", "i", "c", "e", "s" >>,
     meets_criteria_for_birthing_friendly_designation |-> << "m", "e", "e", "t", "s", "_", "c", "r", "i", "t", "e", "r", "i", "a", "_", "f", "o", "r", "_", "b", "i", "r", "t", "h", "i", "n", "g", "_", "f", "r", "i", "e", "n", "d", "l", "y", "_", "d", "e", "s", "i", "g", "n", "a", "t", "i", "o", "n" >>,
     hospital_overall_rating |-> << "h", "o", "s", "p", "i", "t", "a", "l", "_", "o", "v", "e", "r", "a", "l", "l", "_", "r", "a", "t", "i", "n", "g" >>,
     hospital_count |-> << "h", "o", "s", "p", "i", "t", "a", "l", "_", "c", "o", "u", "n", "t" >>,
     acute_care_hospitals |-> << "a", "c", "u", "t", "e", "_", "c", "a", "r", "e", "_", "h", "o", "s", "p", "i", "t", "a", "l", "s" >>,
     critical_access_hospitals |-> << "c", "r", "i", "t", "i", "c", "a", "l", "_", "a", "c", "c", "e", "s", "s", "_", "h", "o", "s", "p", "i", "t", "a", "l", "s" >>,
     birthing_friendly |-> << "b", "i", "r", "t", "h", "i", "n", "g", "_", "f", "r", "i", "e", "n", "d", "l", "y" >>,
     avg_hospital_rating |-> << "a", "v", "g", "_", "h", "o", "s", "p", "i", "t", "a", "l", "_", "r", "a", "t", "i", "n", "g" >>,
     CMN_STATE_COUNTY_FIPS_CD |-> << "C", "M", "N", "_", "S", "T", "A", "T", "E", "_", "C", "O", "U", "N", "T", "Y", "_", "F", "I", "P", "S", "_", "C", "D" >>,
     HPSA_SCORE |-> << "H", "P", "S", "A", "_", "S", "C", "O", "R", "E" >>,
     HPSA_ESTIMATED_UNDERSERVED_POP |-> << "H", "P", "S", "A", "_", "E", "S", "T", "I", "M", "A", "T", "E", "D", "_", "U", "N", "D", "E", "R", "S", "E", "R", "V", "E", "D", "_", "P", "O", "P" >>,
     locationname |-> << "l", "o", "c", "a", "t", "i", "o", "n", "n", "a", "m", "e" >>,
     measureid |-> << "m", "e", "a", "s", "u", "r", "e", "i", "d" >>,
     data_value |-> << "d", "a", "t", "a", "_", "v", "a", "l", "u", "e" >>]

\* the string literals of the code
S ==
    [Michigan |-> << ",", " ", "M", "i", "c", "h", "i", "g", "a", "n" >>,
     County |-> << "C", "o", "u", "n", "t", "y" >>,
     StDot |-> << "S", "t", "." >>,
     Saint |-> << "S", "a", "i", "n", "t", " " >>,
     AcuteCare |-> << "A", "c", "u", "t", "e", " ", "C", "a", "r", "e" >>,
     CriticalAccess |-> << "C", "r", "i", "t", "i", "c", "a", "l", " ", "A", "c", "c", "e", "s", "s" >>,
     yes |-> << "y", "e", "s" >>,
     y |-> << "y" >>,
     true |-> << "t", "r", "u", "e" >>,
     Y |-> << "Y" >>,
     None |-> << "N", "o", "n", "e" >>,
     pc |-> << "p", "c" >>,
     mh |-> << "m", "h" >>,
     hpsa_count |-> << "_", "h", "p", "s", "a", "_", "c", "o", "u", "n", "t" >>,
     hpsa_max_score |-> << "_", "h", "p", "s", "a", "_", "m", "a", "x", "_", "s", "c", "o", "r", "e" >>,
     hpsa_avg_score |-> << "_", "h", "p", "s", "a", "_", "a", "v", "g", "_", "s", "c", "o", "r", "e" >>,
     underserved_pop |-> << "_", "u", "n", "d", "e", "r", "s", "e", "r", "v", "e", "d", "_", "p", "o", "p" >>,
     empty |-> << >>,
     Year |-> << "Y", "e", "a", "r" >>,
     Field |-> << "F", "i", "e", "l", "d" >>,
     Value |-> << "V", "a", "l", "u", "e" >>,
     PLACES |-> << "P", "L", "A", "C", "E", "S", ":", " " >>,
     Access |-> << "A", "c", "c", "e", "s", "s", ":", " " >>,
     Shortage |-> << "S", "h", "o", "r", "t", "a", "g", "e", ":", " " >>,
     NoMatching |-> << "N", "o", " ", "m", "a", "t", "c", "h", "i", "n", "g", " ", "r", "o", "w", "s", " ", "f", "o", "u", "n", "d", "." >>,
     Wrote |-> << "W", "r", "o", "t", "e", " ", "C", "S", "V", " ", "t", "o", " " >>,
     Error |-> << "E", "r", "r", "o", "r", ":", " " >>,
     Traceback |-> << "T", "r", "a", "c", "e", "b", "a", "c", "k", " ", "(", "m", "o", "s", "t", " ", "r", "e", "c", "e", "n", "t", " ", "c", "a", "l", "l", " ", "l", "a", "s", "t", ")", ":" >>]

\* NAME of a county as the Census upstream returns it
Name ==
    [Washtenaw |-> << "W", "a", "s", "h", "t", "e", "n", "a", "w", " ", "C", "o", "u", "n", "t", "y", ",", " ", "M", "i", "c", "h", "i", "g", "a", "n" >>,
     Wayne |-> << "W", "a", "y", "n", "e", " ", "C", "o", "u", "n", "t", "y", ",", " ", "M", "i", "c", "h", "i", "g", "a", "n" >>,
     Oakland |-> << "O", "a", "k", "l", "a", "n", "d", " ", "C", "o", "u", "n", "t", "y", ",", " ", "M", "i", "c", "h", "i", "g", "a", "n" >>,
     StClair |-> << "S", "t", ".", " ", "C", "l", "a", "i", "r", " ", "C", "o", "u", "n", "t", "y", ",", " ", "M", "i", "c", "h", "i", "g", "a", "n" >>,
     Sanilac |-> << "S", "a", "n", "i", "l", "a", "c", " ", "C", "o", "u", "n", "t", "y", ",", " ", "M", "i", "c", "h", "i", "g", "a", "n" >>]

MICHIGAN_FIPS == << "2", "6" >>

\* Census NAME values and county codes: the three counties of the tests and two
\* more Michigan counties
CensusCounties ==
    << [NAME |-> Name.Washtenaw, county |-> << "1", "6", "1" >>],
       [NAME |-> Name.Wayne, county |-> << "1", "6", "3" >>],
       [NAME |-> Name.Oakland, county |-> << "1", "2", "5" >>],
       [NAME |-> Name.StClair, county |-> << "1", "4", "7" >>],
       [NAME |-> Name.Sanilac, county |-> << "1", "5", "1" >>] >>

(***************************************************************************)
(* clean_county_name.                                                      *)
(***************************************************************************)
\* the number of whitespace characters that end s
RECURSIVE TrailingSpaces(_)
TrailingSpaces(s) ==
    IF s # << >> /\ IsSpace(s[Len(s)])
    THEN 1 + TrailingSpaces(SubSeq(s, 1, Len(s) - 1))
    ELSE 0

\* re.sub(r"\s+County$", "", name)
StripCountySuffix(name) ==
    IF EndsWith(name, S.County)
    THEN LET front == Take(name, Len(name) - Len(S.County))
             n == TrailingSpaces(front)
         IN  IF n >= 1 THEN Take(front, Len(front) - n) ELSE name
    ELSE name

\* the number of whitespace characters of s from 0-based position i on
RECURSIVE SpacesAt(_, _)
SpacesAt(s, i) ==
    IF i < Len(s) /\ IsSpace(s[i + 1]) THEN 1 + SpacesAt(s, i + 1) ELSE 0

\* re.sub(r"\bSt\.\s+", "Saint ", name), scanning from 0-based position i
RECURSIVE ExpandSaintFrom(_, _)
ExpandSaintFrom(s, i) ==
    IF i >= Len(s) THEN << >>
    ELSE IF /\ StartsWithAt(s, S.StDot, i)
            /\ (i = 0 \/ ~IsWordChar(s[i]))
            /\ SpacesAt(s, i + Len(S.StDot)) >= 1
         THEN S.Saint
              \o ExpandSaintFrom(s, i + Len(S.StDot) + SpacesAt(s, i + Len(S.StDot)))
         ELSE << s[i + 1] >> \o ExpandSaintFrom(s, i + 1)

ExpandSaint(name) == ExpandSaintFrom(name, 0)

clean_county_name(name) ==
    ExpandSaint(StripCountySuffix(Replace(name, S.Michigan, << >>)))

(***************************************************************************)
(* Python dicts keep insertion order: a dict is a sequence of              *)
(* <<key, value>> pairs with distinct keys.                                *)
(***************************************************************************)
DictHas(d, k) == \E i \in 1..Len(d) : d[i][1] = k
DictGet(d, k) == d[CHOOSE i \in 1..Len(d) : d[i][1] = k][2]
\* d[k] = v
DictPut(d, k, v) ==
    IF DictHas(d, k)
    THEN [i \in 1..Len(d) |-> IF d[i][1] = k THEN << k, v >> ELSE d[i]]
    ELSE Append(d, << k, v >>)
\* list(d.values())
DictValues(d) == [i \in 1..Len(d) |-> d[i][2]]

Min(a, b) == IF a <= b THEN a ELSE b
Range(s) == {s[i] : i \in 1..Len(s)}

Max(a, b) == IF a >= b THEN a ELSE b

(***************************************************************************)
(* Python values.  A value held by a dict of the program is None, an int   *)
(* or a str; a dict from field names to values is a function whose domain  *)
(* is the set of its keys.                                                 *)
(***************************************************************************)
PyNone == [t |-> "none", n |-> 0, s |-> << >>]
PyInt(n) == [t |-> "int", n |-> n, s |-> << >>]
PyStr(s) == [t |-> "str", n |-> 0, s |-> s]

\* bool(v): None, 0 and "" are false
Truthy(v) ==
    CASE v.t = "none" -> FALSE
      [] v.t = "int" -> v.n # 0
      [] v.t = "str" -> v.s # << >>

\* row.get(key, default)
Get(row, key, default) == IF key \in DOMAIN row THEN row[key] ELSE default

(***************************************************************************)
(* Numbers.  A Python float is the decimal fraction m / 10^e it was read   *)
(* from: the numbers of the model (integers, halves, quarters and the      *)
(* short decimals of the upstreams) are added and compared exactly.        *)
(***************************************************************************)
RECURSIVE Pow10(_)
Pow10(e) == IF e = 0 THEN 1 ELSE 10 * Pow10(e - 1)

Float(m, e) == [m |-> m, e |-> e]

\* the integer below a float, and what is left of it in units of 10^-e
Floor(x) == x.m \div Pow10(x.e)
Frac(x) == x.m % Pow10(x.e)

\* a < b for floats, by their integers and then by what is left
FloatLess(a, b) ==
    \/ Floor(a) < Floor(b)
    \/ /\ Floor(a) = Floor(b)
       /\ Frac(a) * Pow10(b.e) < Frac(b) * Pow10(a.e)

\* a + b
FloatAdd(a, b) ==
    LET e == Max(a.e, b.e)
    IN  Float(a.m * Pow10(e - a.e) + b.m * Pow10(e - b.e), e)

\* sum(xs), xs a list of floats
RECURSIVE FloatSum(_)
FloatSum(xs) ==
    IF xs = << >> THEN Float(0, 0)
    ELSE FloatAdd(FloatSum(SubSeq(xs, 1, Len(xs) - 1)), xs[Len(xs)])

\* max(xs) of a non-empty list: the first of the greatest
RECURSIVE FloatMax(_)
FloatMax(xs) ==
    IF Len(xs) = 1 THEN xs[1]
    ELSE LET best == FloatMax(SubSeq(xs, 1, Len(xs) - 1))
         IN  IF FloatLess(best, xs[Len(xs)]) THEN xs[Len(xs)] ELSE best

\* num / den (den > 0) rounded to the nearest integer, a tie to the even one
RoundHalfEven(num, den) ==
    LET q == num \div den
        r == num - q * den
    IN  IF 2 * r < den THEN q
        ELSE IF 2 * r > den THEN q + 1
        ELSE IF q % 2 = 0 THEN q ELSE q + 1

\* round(x / n, d) for an int n > 0
RoundDiv(x, n, d) == Float(RoundHalfEven(x.m * Pow10(d), Pow10(x.e) * n), d)

\* str(n) of a natural number
RECURSIVE NatStr(_)
NatStr(n) ==
    IF n < 10 THEN << DigitChars[n + 1] >>
    ELSE NatStr(n \div 10) \o << DigitChars[(n % 10) + 1] >>

\* str(n) of an int
IntStr(n) == IF n < 0 THEN << "-" >> \o NatStr(0 - n) ELSE NatStr(n)

\* x without the zeros that end its fraction
RECURSIVE FloatNorm(_)
FloatNorm(x) ==
    IF x.e > 0 /\ x.m % 10 = 0 THEN FloatNorm(Float(x.m \div 10, x.e - 1)) ELSE x

\* n digits of the natural number k, with leading zeros
RECURSIVE Digits(_, _)
Digits(k, n) ==
    IF n = 0 THEN << >> ELSE Digits(k \div 10, n - 1) \o << DigitChars[(k % 10) + 1] >>

\* str(x) of a float: the shortest decimal, with at least one digit of fraction
FloatStr(x) ==
    LET y == FloatNorm(x)
        a == IF y.m < 0 THEN 0 - y.m ELSE y.m
        sign == IF y.m < 0 THEN << "-" >> ELSE << >>
    IN  IF y.e = 0 THEN sign \o NatStr(a) \o << ".", "0" >>
        ELSE sign \o NatStr(a \div Pow10(y.e)) \o << "." >>
             \o Digits(a % Pow10(y.e), y.e)

\* the natural number a string of digits denotes
RECURSIVE DigitsValue(_)
DigitsValue(s) ==
    IF s = << >> THEN 0
    ELSE 10 * DigitsValue(SubSeq(s, 1, Len(s) - 1)) + (IndexIn(s[Len(s)], DigitChars) - 1)

AllDigits(s) == \A i \in 1..Len(s) : IsDigit(s[i])

\* the 1-based position of the first "." of s, 0 when it has none
DotAt(s) ==
    IF \E i \in 1..Len(s) : s[i] = "."
    THEN CHOOSE i \in 1..Len(s) : s[i] = "." /\ \A j \in 1..(i - 1) : s[j] # "."
    ELSE 0

\* float(s) of a str: [ok |-> FALSE] stands for ValueError.  The strings of the
\* model are decimal literals or hold letters other than a number's (no
\* exponent, "inf" or "nan" is among them).
ParseFloat(s) ==
    LET t == Strip(s)
        neg == t # << >> /\ Head(t) = "-"
        u == IF neg THEN Tail(t) ELSE t
        d == DotAt(u)
        ip == IF d = 0 THEN u ELSE SubSeq(u, 1, d - 1)
        fp == IF d = 0 THEN << >> ELSE SubSeq(u, d + 1, Len(u))
        a == DigitsValue(ip \o fp)
    IN  IF AllDigits(ip) /\ AllDigits(fp) /\ ip \o fp # << >>
        THEN [ok |-> TRUE, x |-> Float(IF neg THEN 0 - a ELSE a, Len(fp))]
        ELSE [ok |-> FALSE, x |-> Float(0, 0)]

\* float(v) of a value: TypeError for None, ValueError for a str that is no number
ToFloat(v) ==
    CASE v.t = "none" -> [ok |-> FALSE, x |-> Float(0, 0)]
      [] v.t = "int" -> [ok |-> TRUE, x |-> Float(v.n, 0)]
      [] v.t = "str" -> ParseFloat(v.s)

(***************************************************************************)
(* State of one fetch: fetch_hospital_data, fetch_places_data,             *)
(* fetch_hpsa_data or fetch_acs_data.                                      *)
(***************************************************************************)
NoResult == << "no result" >>
NoError == [kind |-> "none", status_code |-> -1]

\* the status codes an upstream answers with
Statuses == {200, 204, 401, 403, 404, 500}
Is2xx(status) == status >= 200 /\ status < 300

\* limit of fetch_hospital_data, fetch_places_data, fetch_hpsa_data
hospital_limit == 500
places_limit == 10000
hpsa_limit == 1000
MAX_VARS_PER_CALL == 49

limit(f) ==
    CASE f = "cms" -> hospital_limit
      [] f = "places" -> places_limit
      [] f = "hrsa" -> hpsa_limit

\* the error class each source raises on a bad status
ApiErrorOf(f) ==
    CASE f = "cms" -> "CMSAPIError"
      [] f = "places" -> "PlacesAPIError"
      [] f = "hrsa" -> "HRSAAPIError"
      [] f = "census" -> "CensusAPIError"

\* the sizes of the upstream's record list: around each multiple of the page size
UpstreamSizes(L) ==
    {n \in {k * L + d : k \in 0..MaxPages, d \in (0 - MaxDelta)..MaxDelta} : n >= 0}

\* the upstream's records are numbered 1..upstreamN; a response to (off, count)
\* holds the records from position off on, at most count and at most srvCap
Page(off, count) ==
    LET last == Min(off + Min(count, srvCap), upstreamN)
    IN  IF off >= last THEN << >> ELSE [i \in 1..(last - off) |-> off + i]

\* a fetcher that fails only on server errors
StatusOk_ServerErrorsOnly(status) == status < 500

\* resp.status_code != 200
StatusOk(status) == status = 200

\* a fetcher that takes a full page for the last one
ShortPage_OrFull(results, lim) == Len(results) <= lim

\* len(results) < limit
ShortPage(results, lim) == Len(results) < lim

\* a loop that asks for the same page again
NextOffset_SamePage(off, lim) == off

\* offset += limit
NextOffset(off, lim) == off + lim

Raise(kind, status) ==
    /\ fpc' = "raised"
    /\ ferr' = [kind |-> kind, status_code |-> status]
    /\ fresult' = NoResult

\* one turn of the while loop of fetch_hospital_data and fetch_places_data
OffsetLimitTurn(f) ==
    /\ fpc = "loop"
    /\ \E status \in Statuses :
        /\ requests' = Append(requests, [arg |-> offset, status |-> status, ks |-> {},
                                         more |-> FALSE])
        /\ IF ~StatusOk(status)
           THEN /\ Raise(ApiErrorOf(f), status)
                /\ UNCHANGED << offset, all_records >>
           ELSE LET results == Page(offset, limit(f))
                IN  IF results = << >>
                    THEN /\ fpc' = "done"
                         /\ fresult' = all_records
                         /\ UNCHANGED << offset, all_records, ferr >>
                    ELSE /\ all_records' = all_records \o results
                         /\ IF ShortPage(results, limit(f))
                            THEN /\ fpc' = "done"
                                 /\ fresult' = all_records'
                                 /\ UNCHANGED offset
                            ELSE /\ offset' = NextOffset(offset, limit(f))
                                 /\ fpc' = "loop"
                                 /\ UNCHANGED fresult
                         /\ UNCHANGED ferr
    /\ UNCHANGED << fetcher, upstreamN, srvCap, codesN, chunkIdx, merged >>
    /\ UNCHANGED fetchRest

\* fetch_hospital_data
FetchHospitalPage ==
    /\ fetcher = "cms"
    /\ OffsetLimitTurn("cms")

\* fetch_places_data, up to the list it hands to _pivot_rows
FetchPlacesPage ==
    /\ fetcher = "places"
    /\ OffsetLimitTurn("places")

\* one turn of the while loop of fetch_hpsa_data; the upstream chooses
\* exceededTransferLimit
FetchHpsaPage ==
    /\ fetcher = "hrsa"
    /\ fpc = "loop"
    /\ \E status \in Statuses, exceededTransferLimit \in BOOLEAN :
        /\ requests' = Append(requests, [arg |-> offset, status |-> status, ks |-> {},
                                         more |-> exceededTransferLimit])
        /\ IF ~StatusOk(status)
           THEN /\ Raise(ApiErrorOf("hrsa"), status)
                /\ UNCHANGED << offset, all_records >>
           ELSE LET features == Page(offset, hpsa_limit)
                IN  IF features = << >>
                    THEN /\ fpc' = "done"
                         /\ fresult' = all_records
                         /\ UNCHANGED << offset, all_records, ferr >>
                    ELSE /\ all_records' = all_records \o features
                         /\ IF ~exceededTransferLimit
                            THEN /\ fpc' = "done"
                                 /\ fresult' = all_records'
                                 /\ UNCHANGED offset
                            ELSE /\ offset' = NextOffset(offset, hpsa_limit)
                                 /\ fpc' = "loop"
                                 /\ UNCHANGED fresult
                         /\ UNCHANGED ferr
    /\ UNCHANGED << fetcher, upstreamN, srvCap, codesN, chunkIdx, merged >>
    /\ UNCHANGED fetchRest

(***************************************************************************)
(* fetch_acs_data and _fetch_acs_batch.  The requested variable codes are  *)
(* numbered 1..codesN.  A row of a batch is dict(zip(headers, row)): NAME, *)
(* the requested codes, state and county.                                  *)
(***************************************************************************)
\* the numbers of requested codes: each multiple of the cap, and one more
CodeCounts ==
    {k * MAX_VARS_PER_CALL + d : k \in 1..MaxChunks, d \in 0..1}

\* range(0, len(all_codes), MAX_VARS_PER_CALL)
NumChunks(n) == (n + MAX_VARS_PER_CALL - 1) \div MAX_VARS_PER_CALL

\* all_codes[i:i + MAX_VARS_PER_CALL] of the chunk with 0-based index c
ChunkCodes(c, n) ==
    (c * MAX_VARS_PER_CALL + 1)..Min((c + 1) * MAX_VARS_PER_CALL, n)

\* the name of the c-th requested variable code
CodeName(c) == << "B" >> \o NatStr(c) \o << "E" >>

\* the value the upstream holds for a county (index k of CensusCounties) and a
\* code: a JSON string or null
CensusCell(k, c) ==
    LET pool == << PyStr(<< "1", "0", "0", "1" >>), PyStr(<< "4", "2", ".", "5" >>),
                   PyStr(<< "-", "6", "6", "6", "6", "6", "6", "6", "6", "6" >>),
                   PyNone, PyStr(<< "0" >>) >>
    IN  pool[((k + c) % Len(pool)) + 1]

\* the row _fetch_acs_batch builds for county k and the codes of a chunk:
\* dict(zip(headers, row)) with headers NAME, the codes, state, county
BatchRow(k, codes) ==
    [key \in {K.NAME, K.state, K.county} \cup {CodeName(c) : c \in codes} |->
        IF key = K.NAME THEN PyStr(CensusCounties[k].NAME)
        ELSE IF key = K.state THEN PyStr(MICHIGAN_FIPS)
        ELSE IF key = K.county THEN PyStr(CensusCounties[k].county)
        ELSE CensusCell(k, CHOOSE c \in codes : CodeName(c) = key)]

\* the rows of a response that holds the counties ks (a set of indexes), in the
\* upstream's order
RECURSIVE BatchRows(_, _, _)
BatchRows(k, ks, codes) ==
    IF k > Len(CensusCounties) THEN << >>
    ELSE (IF k \in ks THEN << BatchRow(k, codes) >> ELSE << >>)
         \o BatchRows(k + 1, ks, codes)

\* row["state"] + row["county"]
MergeKey(row) == row[K.state].s \o row[K.county].s

\* a merge that puts the row of the later chunk in the place of the merged one
RowUpdate_Replaces(old, row) == row

\* a merge that keeps the first row of a key
RowUpdate_FirstWins(old, row) == old

\* merged[key].update(row): every field of row replaces the field of old
RowUpdate(old, row) == row @@ old

\* for row in batch_rows: merged[key].update(row), or merged[key] = row
RECURSIVE MergeBatch(_, _)
MergeBatch(m, batch_rows) ==
    IF batch_rows = << >> THEN m
    ELSE LET row == Head(batch_rows)
             key == MergeKey(row)
             m1 == IF DictHas(m, key)
                   THEN DictPut(m, key, RowUpdate(DictGet(m, key), row))
                   ELSE DictPut(m, key, row)
         IN  MergeBatch(m1, Tail(batch_rows))

\* the counties a response may hold: any subset of the first MaxCounties
MaxCounties == 2

\* one call of _fetch_acs_batch by fetch_acs_data: the single batch of the fast
\* path, or the next chunk of the merge loop
FetchAcsBatch ==
    /\ fetcher = "census"
    /\ fpc = "loop"
    /\ \E status \in Statuses, ks \in SUBSET (1..MaxCounties) :
        /\ requests' = Append(requests, [arg |-> chunkIdx, status |-> status, ks |-> ks,
                                         more |-> FALSE])
        /\ IF status \in {401, 403}
           THEN /\ Raise("InvalidAPIKeyError", -1)
                /\ UNCHANGED << chunkIdx, merged >>
           ELSE IF ~StatusOk(status)
           THEN /\ Raise(ApiErrorOf("census"), status)
                /\ UNCHANGED << chunkIdx, merged >>
           ELSE IF codesN <= MAX_VARS_PER_CALL
           THEN /\ fpc' = "done"
                /\ fresult' = BatchRows(1, ks, 1..codesN)
                /\ chunkIdx' = chunkIdx + 1
                /\ UNCHANGED << merged, ferr >>
           ELSE LET batch_rows == BatchRows(1, ks, ChunkCodes(chunkIdx, codesN))
                IN  /\ merged' = MergeBatch(merged, batch_rows)
                    /\ chunkIdx' = chunkIdx + 1
                    /\ IF chunkIdx' = NumChunks(codesN)
                       THEN /\ fpc' = "done"
                            /\ fresult' = DictValues(merged')
                       ELSE /\ fpc' = "loop"
                            /\ UNCHANGED fresult
                    /\ UNCHANGED ferr
    /\ UNCHANGED << fetcher, upstreamN, srvCap, offset, all_records, codesN >>
    /\ UNCHANGED fetchRest

\* the state at the call of a fetch function
FetchInit ==
    /\ fetcher \in {"cms", "places", "hrsa", "census"}
    /\ fpc = "loop"
    /\ offset = 0
    /\ all_records = << >>
    /\ requests = << >>
    /\ chunkIdx = 0
    /\ merged = << >>
    /\ fresult = NoResult
    /\ ferr = NoError
    /\ IF fetcher = "census"
       THEN /\ upstreamN = 0
            /\ srvCap = 0
            /\ codesN \in CodeCounts
       ELSE /\ upstreamN \in UpstreamSizes(limit(fetcher))
            /\ srvCap \in {limit(fetcher), limit(fetcher) \div 2}
            /\ codesN = 0

FetchNext ==
    \/ FetchHospitalPage
    \/ FetchPlacesPage
    \/ FetchHpsaPage
    \/ FetchAcsBatch

C2_Non2xxRaisesApiErrorWithStatus ==
    \A i \in 1..Len(requests) :
        ~Is2xx(requests[i].status) =>
            /\ i = Len(requests)
            /\ fpc = "raised"
            /\ fresult = NoResult
            /\ ferr = [kind |-> ApiErrorOf(fetcher), status_code |-> requests[i].status]

\* C2 (amended): the same, except that the Census fetch answers 401 and 403
\* with InvalidAPIKeyError, which carries no status code.
C2_Non2xxRaises ==
    \A i \in 1..Len(requests) :
        ~Is2xx(requests[i].status) =>
            /\ i = Len(requests)
            /\ fpc = "raised"
            /\ fresult = NoResult
            /\ ferr = IF fetcher = "census" /\ requests[i].status \in {401, 403}
                      THEN [kind |-> "InvalidAPIKeyError", status_code |-> -1]
                      ELSE [kind |-> ApiErrorOf(fetcher),
                            status_code |-> requests[i].status]

\* a fetch that failed on its second page, after a first page of records
C2_Witness ==
    /\ fetcher = "hrsa"
    /\ fpc = "raised"
    /\ Len(requests) = 2
    /\ all_records # << >>
    /\ ferr = [kind |-> "HRSAAPIError", status_code |-> 404]
    /\ fresult = NoResult

\* the chunks (0-based indexes) whose response held county k
ChunksWith(k) == {requests[i].arg : i \in {j \in 1..Len(requests) : k \in requests[j].ks}}

\* C3: with more than MAX_VARS_PER_CALL codes fetch_acs_data returns exactly
\* one row per state+county key of any batch response, and the row holds
\* every code any batch returned for that key.
C3_OneMergedRowPerKey ==
    (fetcher = "census" /\ fpc = "done" /\ codesN > MAX_VARS_PER_CALL) =>
        /\ \A i \in 1..Len(fresult) :
              \E k \in 1..Len(CensusCounties) :
                  /\ ChunksWith(k) # {}
                  /\ MergeKey(fresult[i]) = MICHIGAN_FIPS \o CensusCounties[k].county
        /\ \A k \in 1..Len(CensusCounties) :
              LET key == MICHIGAN_FIPS \o CensusCounties[k].county
                  at == {i \in 1..Len(fresult) : MergeKey(fresult[i]) = key}
                  codes == UNION {ChunkCodes(c, codesN) : c \in ChunksWith(k)}
              IN  ChunksWith(k) # {} =>
                      /\ Cardinality(at) = 1
                      /\ \A i \in at :
                            /\ DOMAIN fresult[i] =
                                   {K.NAME, K.state, K.county}
                                       \cup {CodeName(c) : c \in codes}
                            /\ \A c \in codes :
                                   fresult[i][CodeName(c)] = CensusCell(k, c)

\* two batches returned the same two counties, and two rows came back
C3_Witness ==
    /\ fetcher = "census"
    /\ fpc = "done"
    /\ codesN = MAX_VARS_PER_CALL + 1
    /\ ChunksWith(1) = {0, 1}
    /\ ChunksWith(2) = {0, 1}
    /\ Len(fresult) = 2

\* the paginating fetchers
Paginating == {"cms", "places", "hrsa"}

\* the records of the response to the i-th request
ResponseOf(i) == Page(requests[i].arg, limit(fetcher))

\* C24: in fetch_hospital_data, fetch_places_data and fetch_hpsa_data a
\* response with status 200 that holds fewer records than the page size is
\* the last one: no request follows it and the fetch has returned the records
\* accumulated so far.
C24_ShortPageIsTheLastPage ==
    fetcher \in Paginating =>
        \A i \in 1..Len(requests) :
            (requests[i].status = 200 /\ Len(ResponseOf(i)) < limit(fetcher)) =>
                /\ i = Len(requests)
                /\ fpc = "done"
                /\ fresult = all_records

\* the most requests a fetch sends to an upstream of n records: one for each
\* page that starts before the end of the records, and one that finds nothing
MostRequests(n, lim) == (n + lim - 1) \div lim + 1

\* the loop has returned, or a response was not a 200
ReturnedOr200Broken ==
    fpc = "done" \/ \E i \in 1..Len(requests) : requests[i].status # 200

\* C25: fetch_hospital_data, fetch_places_data and fetch_hpsa_data terminate
\* against an upstream of finitely many records that answers 200 with records
\* at or after the offset asked, whatever exceededTransferLimit says: every
\* turn of the loop moves the offset one page on, a turn is taken only when
\* the page before it started inside the records, so at most
\* MostRequests requests are sent, and the loop then returns.
C25_PaginationTerminates ==
    /\ [](fetcher \in Paginating =>
              /\ Len(requests) <= MostRequests(upstreamN, limit(fetcher))
              /\ \A i \in 1..Len(requests) :
                     requests[i].arg = (i - 1) * limit(fetcher)
              /\ fpc = "loop" => offset = Len(requests) * limit(fetcher))
    /\ <>(fetcher \in Paginating => ReturnedOr200Broken)

\* fetch_hpsa_data on 2000 features, exceededTransferLimit set in both full
\* pages: the third request finds nothing and the fetch returns
C25_Witness ==
    /\ fetcher = "hrsa"
    /\ srvCap = hpsa_limit
    /\ upstreamN = 2 * hpsa_limit
    /\ fpc = "done"
    /\ Len(requests) = 3
    /\ \A i \in 1..3 : requests[i].status = 200
    /\ requests[1].more /\ requests[2].more /\ requests[3].more
    /\ Len(fresult) = upstreamN

TruthfulTransferLimit ==
    \A i \in 1..Len(requests) :
        requests[i].more = (requests[i].arg + Len(ResponseOf(i)) < upstreamN)

\* C29: fetch_hpsa_data returns every feature of the upstream once, in order,
\* when the upstream serves the features from resultOffset on, at most its own
\* page cap of them, and sets exceededTransferLimit exactly when features
\* remain: for a cap of the page size asked and for a smaller one.
C29_HpsaReturnsEveryFeature ==
    (fetcher = "hrsa" /\ fpc = "done" /\ srvCap >= 1 /\ TruthfulTransferLimit) =>
        fresult = [i \in 1..upstreamN |-> i]

\* sorted(xs, key=...): the stable sort of xs, Before(a, b) saying that a's key
\* is less than b's.  The element at position p is the one that has p - 1
\* elements before it: those of a lesser key, and the earlier ones of an equal key.
Sorted(xs, Before(_, _)) ==
    LET n == Len(xs)
        rank(i) ==
            Cardinality({j \in 1..n :
                \/ Before(xs[j], xs[i])
                \/ (~Before(xs[i], xs[j]) /\ j < i)}) + 1
    IN  [p \in 1..n |-> xs[CHOOSE i \in 1..n : rank(i) = p]]

(***************************************************************************)
(* _aggregate_hospitals_by_county.  A record of the CMS upstream is a dict *)
(* of JSON strings.                                                        *)
(***************************************************************************)
\* rec.get(key, "") of a record of strings
GetStr(rec, key) == Get(rec, key, PyStr(S.empty)).s

\* "Acute Care" in h_type
IsAcuteCare(h_type) == Contains(S.AcuteCare, h_type)
\* "Critical Access" in h_type
IsCriticalAccess(h_type) == Contains(S.CriticalAccess, h_type)
\* rec.get("emergency_services", "").lower() in ("yes", "y", "true")
HasEmergency(v) == Lower(v) \in {S.yes, S.y, S.true}
\* rec.get("meets_criteria_for_birthing_friendly_designation", "").upper() == "Y"
IsBirthingFriendly(v) == Upper(v) = S.Y

\* the entry by_county gets for a county it does not hold
NewHospitalData(county) ==
    [county |-> county, hospital_count |-> 0, acute_care_hospitals |-> 0,
     critical_access_hospitals |-> 0, emergency_services |-> 0,
     birthing_friendly |-> 0, ratings |-> << >>]

\* a county read as it is written, spaces included
StrippedCounty_Unstripped(rec) == GetStr(rec, K.countyparish)

\* rec.get("countyparish", "").strip()
StrippedCounty(rec) == Strip(GetStr(rec, K.countyparish))

\* the body of the loop over records
HospitalStep(by_county, rec) ==
    LET stripped == StrippedCounty(rec)
        county == Title(stripped)
        data == IF DictHas(by_county, county) THEN DictGet(by_county, county)
                ELSE NewHospitalData(county)
        h_type == GetStr(rec, K.hospital_type)
        rating == ParseFloat(GetStr(rec, K.hospital_overall_rating))
        data1 ==
            [data EXCEPT
                !.hospital_count = @ + 1,
                !.acute_care_hospitals = IF IsAcuteCare(h_type) THEN @ + 1 ELSE @,
                !.critical_access_hospitals =
                    IF ~IsAcuteCare(h_type) /\ IsCriticalAccess(h_type) THEN @ + 1 ELSE @,
                !.emergency_services =
                    IF HasEmergency(GetStr(rec, K.emergency_services)) THEN @ + 1 ELSE @,
                !.birthing_friendly =
                    IF IsBirthingFriendly(
                           GetStr(rec, K.meets_criteria_for_birthing_friendly_designation))
                    THEN @ + 1 ELSE @,
                !.ratings = IF rating.ok THEN Append(@, rating.x) ELSE @]
    IN  IF stripped = << >> THEN by_county ELSE DictPut(by_county, county, data1)

RECURSIVE HospitalLoop(_, _)
HospitalLoop(by_county, records) ==
    IF records = << >> THEN by_county
    ELSE HospitalLoop(HospitalStep(by_county, Head(records)), Tail(records))

\* an average cut after its first decimal
AvgStr_Truncated(xs) ==
    IF xs # << >>
    THEN FloatStr(Float((FloatSum(xs).m * 10) \div (Pow10(FloatSum(xs).e) * Len(xs)), 1))
    ELSE S.empty

\* str(round(sum(xs) / len(xs), 1)) if xs else ""
AvgStr(xs) == IF xs # << >> THEN FloatStr(RoundDiv(FloatSum(xs), Len(xs), 1)) ELSE S.empty

\* the row of a county once _ratings is popped and avg_hospital_rating is set
HospitalRow(data) ==
    [key \in {K.county, K.hospital_count, K.acute_care_hospitals,
              K.critical_access_hospitals, K.emergency_services,
              K.birthing_friendly, K.avg_hospital_rating} |->
        CASE key = K.county -> PyStr(data.county)
          [] key = K.hospital_count -> PyInt(data.hospital_count)
          [] key = K.acute_care_hospitals -> PyInt(data.acute_care_hospitals)
          [] key = K.critical_access_hospitals -> PyInt(data.critical_access_hospitals)
          [] key = K.emergency_services -> PyInt(data.emergency_services)
          [] key = K.birthing_friendly -> PyInt(data.birthing_friendly)
          [] key = K.avg_hospital_rating -> PyStr(AvgStr(data.ratings))]

\* a key that orders the counties from the last to the first
CountyBefore_Reversed(a, b) ==
    StrLess(Get(b, K.county, PyStr(S.empty)).s, Get(a, K.county, PyStr(S.empty)).s)

\* key=lambda r: r.get("county", "")
CountyBefore(a, b) ==
    StrLess(Get(a, K.county, PyStr(S.empty)).s, Get(b, K.county, PyStr(S.empty)).s)

\* a return that keeps the order in which the counties were first seen
SortByCounty_Unsorted(rows) == rows

\* sorted(by_county.values(), key=lambda r: r.get("county", ""))
SortByCounty(rows) == Sorted(rows, CountyBefore)

_aggregate_hospitals_by_county(records) ==
    LET by_county == HospitalLoop(<< >>, records)
        values == DictValues(by_county)
    IN  SortByCounty([i \in 1..Len(values) |-> HospitalRow(values[i])])

(***************************************************************************)
(* _aggregate_hpsa_by_county.  A feature is the dict of its attributes;    *)
(* the attributes are JSON strings, integers or null.                      *)
(***************************************************************************)
MI_FIPS_TO_COUNTY ==
    << << << "2", "6", "0", "0", "1" >>, << "A", "l", "c", "o", "n", "a" >> >>,
       << << "2", "6", "0", "0", "3" >>, << "A", "l", "g", "e", "r" >> >>,
       << << "2", "6", "0", "0", "5" >>, << "A", "l", "l", "e", "g", "a", "n" >> >>,
       << << "2", "6", "0", "0", "7" >>, << "A", "l", "p", "e", "n", "a" >> >>,
       << << "2", "6", "0", "0", "9" >>, << "A", "n", "t", "r", "i", "m" >> >>,
       << << "2", "6", "0", "1", "1" >>, << "A", "r", "e", "n", "a", "c" >> >>,
       << << "2", "6", "0", "1", "3" >>, << "B", "a", "r", "a", "g", "a" >> >>,
       << << "2", "6", "0", "1", "5" >>, << "B", "a", "r", "r", "y" >> >>,
       << << "2", "6", "0", "1", "7" >>, << "B", "a", "y" >> >>,
       << << "2", "6", "0", "1", "9" >>, << "B", "e", "n", "z", "i", "e" >> >>,
       << << "2", "6", "0", "2", "1" >>, << "B", "e", "r", "r", "i", "e", "n" >> >>,
       << << "2", "6", "0", "2", "3" >>, << "B", "r", "a", "n", "c", "h" >> >>,
       << << "2", "6", "0", "2", "5" >>, << "C", "a", "l", "h", "o", "u", "n" >> >>,
       << << "2", "6", "0", "2", "7" >>, << "C", "a", "s", "s" >> >>,
       << << "2", "6", "0", "2", "9" >>, << "C", "h", "a", "r", "l", "e", "v", "o", "i", "x" >> >>,
       << << "2", "6", "0", "3", "1" >>, << "C", "h", "e", "b", "o", "y", "g", "a", "n" >> >>,
       << << "2", "6", "0", "3", "3" >>, << "C", "h", "i", "p", "p", "e", "w", "a" >> >>,
       << << "2", "6", "0", "3", "5" >>, << "C", "l", "a", "r", "e" >> >>,
       << << "2", "6", "0", "3", "7" >>, << "C", "l", "i", "n", "t", "o", "n" >> >>,
       << << "2", "6", "0", "3", "9" >>, << "C", "r", "a", "w", "f", "o", "r", "d" >> >>,
       << << "2", "6", "0", "4", "1" >>, << "D", "e", "l", "t", "a" >> >>,
       << << "2", "6", "0", "4", "3" >>, << "D", "i", "c", "k", "i", "n", "s", "o", "n" >> >>,
       << << "2", "6", "0", "4", "5" >>, << "E", "a", "t", "o", "n" >> >>,
       << << "2", "6", "0", "4", "7" >>, << "E", "m", "m", "e", "t" >> >>,
       << << "2", "6", "0", "4", "9" >>, << "G", "e", "n", "e", "s", "e", "e" >> >>,
       << << "2", "6", "0", "5", "1" >>, << "G", "l", "a", "d", "w", "i", "n" >> >>,
       << << "2", "6", "0", "5", "3" >>, << "G", "o", "g", "e", "b", "i", "c" >> >>,
       << << "2", "6", "0", "5", "5" >>, << "G", "r", "a", "n", "d", " ", "T", "r", "a", "v", "e", "r", "s", "e" >> >>,
       << << "2", "6", "0", "5", "7" >>, << "G", "r", "a", "t", "i", "o", "t" >> >>,
       << << "2", "6", "0", "5", "9" >>, << "H", "i", "l", "l", "s", "d", "a", "l", "e" >> >>,
       << << "2", "6", "0", "6", "1" >>, << "H", "o", "u", "g", "h", "t", "o", "n" >> >>,
       << << "2", "6", "0", "6", "3" >>, << "H", "u", "r", "o", "n" >> >>,
       << << "2", "6", "0", "6", "5" >>, << "I", "n", "g", "h", "a", "m" >> >>,
       << << "2", "6", "0", "6", "7" >>, << "I", "o", "n", "i", "a" >> >>,
       << << "2", "6", "0", "6", "9" >>, << "I", "o", "s", "c", "o" >> >>,
       << << "2", "6", "0", "7", "1" >>, << "I", "r", "o", "n" >> >>,
       << << "2", "6", "0", "7", "3" >>, << "I", "s", "a", "b", "e", "l", "l", "a" >> >>,
       << << "2", "6", "0", "7", "5" >>, << "J", "a", "c", "k", "s", "o", "n" >> >>,
       << << "2", "6", "0", "7", "7" >>, << "K", "a", "l", "a", "m", "a", "z", "o", "o" >> >>,
       << << "2", "6", "0", "7", "9" >>, << "K", "a", "l", "k", "a", "s", "k", "a" >> >>,
       << << "2", "6", "0", "8", "1" >>, << "K", "e", "n", "t" >> >>,
       << << "2", "6", "0", "8", "3" >>, << "K", "e", "w", "e", "e", "n", "a", "w" >> >>,
       << << "2", "6", "0", "8", "5" >>, << "L", "a", "k", "e" >> >>,
       << << "2", "6", "0", "8", "7" >>, << "L", "a", "p", "e", "e", "r" >> >>,
       << << "2", "6", "0", "8", "9" >>, << "L", "e", "e", "l", "a", "n", "a", "u" >> >>,
       << << "2", "6", "0", "9", "1" >>, << "L", "e", "n", "a", "w", "e", "e" >> >>,
       << << "2", "6", "0", "9", "3" >>, << "L", "i", "v", "i", "n", "g", "s", "t", "o", "n" >> >>,
       << << "2", "6", "0", "9", "5" >>, << "L", "u", "c", "e" >> >>,
       << << "2", "6", "0", "9", "7" >>, << "M", "a", "c", "k", "i", "n", "a", "c" >> >>,
       << << "2", "6", "0", "9", "9" >>, << "M", "a", "c", "o", "m", "b" >> >>,
       << << "2", "6", "1", "0", "1" >>, << "M", "a", "n", "i", "s", "t", "e", "e" >> >>,
       << << "2", "6", "1", "0", "3" >>, << "M", "a", "r", "q", "u", "e", "t", "t", "e" >> >>,
       << << "2", "6", "1", "0", "5" >>, << "M", "a", "s", "o", "n" >> >>,
       << << "2", "6", "1", "0", "7" >>, << "M", "e", "c", "o", "s", "t", "a" >> >>,
       << << "2", "6", "1", "0", "9" >>, << "M", "e", "n", "o", "m", "i", "n", "e", "e" >> >>,
       << << "2", "6", "1", "1", "1" >>, << "M", "i", "d", "l", "a", "n", "d" >> >>,
       << << "2", "6", "1", "1", "3" >>, << "M", "i", "s", "s", "a", "u", "k", "e", "e" >> >>,
       << << "2", "6", "1", "1", "5" >>, << "M", "o", "n", "r", "o", "e" >> >>,
       << << "2", "6", "1", "1", "7" >>, << "M", "o", "n", "t", "c", "a", "l", "m" >> >>,
       << << "2", "6", "1", "1", "9" >>, << "M", "o", "n", "t", "m", "o", "r", "e", "n", "c", "y" >> >>,
       << << "2", "6", "1", "2", "1" >>, << "M", "u", "s", "k", "e", "g", "o", "n" >> >>,
       << << "2", "6", "1", "2", "3" >>, << "N", "e", "w", "a", "y", "g", "o" >> >>,
       << << "2", "6", "1", "2", "5" >>, << "O", "a", "k", "l", "a", "n", "d" >> >>,
       << << "2", "6", "1", "2", "7" >>, << "O", "c", "e", "a", "n", "a" >> >>,
       << << "2", "6", "1", "2", "9" >>, << "O", "g", "e", "m", "a", "w" >> >>,
       << << "2", "6", "1", "3", "1" >>, << "O", "n", "t", "o", "n", "a", "g", "o", "n" >> >>,
       << << "2", "6", "1", "3", "3" >>, << "O", "s", "c", "e", "o", "l", "a" >> >>,
       << << "2", "6", "1", "3", "5" >>, << "O", "s", "c", "o", "d", "a" >> >>,
       << << "2", "6", "1", "3", "7" >>, << "O", "t", "s", "e", "g", "o" >> >>,
       << << "2", "6", "1", "3", "9" >>, << "O", "t", "t", "a", "w", "a" >> >>,
       << << "2", "6", "1", "4", "1" >>, << "P", "r", "e", "s", "q", "u", "e", " ", "I", "s", "l", "e" >> >>,
       << << "2", "6", "1", "4", "3" >>, << "R", "o", "s", "c", "o", "m", "m", "o", "n" >> >>,
       << << "2", "6", "1", "4", "5" >>, << "S", "a", "g", "i", "n", "a", "w" >> >>,
       << << "2", "6", "1", "4", "7" >>, << "S", "a", "i", "n", "t", " ", "C", "l", "a", "i", "r" >> >>,
       << << "2", "6", "1", "4", "9" >>, << "S", "a", "i", "n", "t", " ", "J", "o", "s", "e", "p", "h" >> >>,
       << << "2", "6", "1", "5", "1" >>, << "S", "a", "n", "i", "l", "a", "c" >> >>,
       << << "2", "6", "1", "5", "3" >>, << "S", "c", "h", "o", "o", "l", "c", "r", "a", "f", "t" >> >>,
       << << "2", "6", "1", "5", "5" >>, << "S", "h", "i", "a", "w", "a", "s", "s", "e", "e" >> >>,
       << << "2", "6", "1", "5", "7" >>, << "T", "u", "s", "c", "o", "l", "a" >> >>,
       << << "2", "6", "1", "5", "9" >>, << "V", "a", "n", " ", "B", "u", "r", "e", "n" >> >>,
       << << "2", "6", "1", "6", "1" >>, << "W", "a", "s", "h", "t", "e", "n", "a", "w" >> >>,
       << << "2", "6", "1", "6", "3" >>, << "W", "a", "y", "n", "e" >> >>,
       << << "2", "6", "1", "6", "5" >>, << "W", "e", "x", "f", "o", "r", "d" >> >> >>

\* str(v)
PyToStr(v) ==
    CASE v.t = "none" -> S.None
      [] v.t = "int" -> IntStr(v.n)
      [] v.t = "str" -> v.s

\* int(v) of a value that is not None: ValueError for a str that is no integer
ToInt(v) ==
    CASE v.t = "int" -> [ok |-> TRUE, n |-> v.n]
      [] v.t = "str" ->
            LET t == Strip(v.s)
                neg == t # << >> /\ Head(t) = "-"
                u == IF neg THEN Tail(t) ELSE t
            IN  IF u # << >> /\ AllDigits(u)
                THEN [ok |-> TRUE, n |-> IF neg THEN 0 - DigitsValue(u) ELSE DigitsValue(u)]
                ELSE [ok |-> FALSE, n |-> 0]
      [] v.t = "none" -> [ok |-> FALSE, n |-> 0]

\* a loop that counts a feature only when its score is a number
HpsaStep_CountsScoredOnly(by_county, attrs) ==
    LET fips == PyToStr(Get(attrs, K.CMN_STATE_COUNTY_FIPS_CD, PyStr(S.empty)))
        county == DictGet(MI_FIPS_TO_COUNTY, fips)
        data == IF DictHas(by_county, county) THEN DictGet(by_county, county)
                ELSE [county |-> county, hpsa_count |-> 0, scores |-> << >>, pop |-> 0]
        score == Get(attrs, K.HPSA_SCORE, PyNone)
        pop == Get(attrs, K.HPSA_ESTIMATED_UNDERSERVED_POP, PyNone)
        data1 ==
            [data EXCEPT
                !.hpsa_count = IF score # PyNone /\ ToFloat(score).ok THEN @ + 1 ELSE @,
                !.scores = IF score # PyNone /\ ToFloat(score).ok
                           THEN Append(@, ToFloat(score).x) ELSE @,
                !.pop = IF pop # PyNone /\ ToInt(pop).ok THEN @ + ToInt(pop).n ELSE @]
    IN  IF ~DictHas(MI_FIPS_TO_COUNTY, fips) THEN by_county
        ELSE DictPut(by_county, county, data1)

\* the body of the loop over features
HpsaStep(by_county, attrs) ==
    LET fips == PyToStr(Get(attrs, K.CMN_STATE_COUNTY_FIPS_CD, PyStr(S.empty)))
        county == DictGet(MI_FIPS_TO_COUNTY, fips)
        data == IF DictHas(by_county, county) THEN DictGet(by_county, county)
                ELSE [county |-> county, hpsa_count |-> 0, scores |-> << >>, pop |-> 0]
        score == Get(attrs, K.HPSA_SCORE, PyNone)
        pop == Get(attrs, K.HPSA_ESTIMATED_UNDERSERVED_POP, PyNone)
        data1 ==
            [data EXCEPT
                !.hpsa_count = @ + 1,
                !.scores = IF score # PyNone /\ ToFloat(score).ok
                           THEN Append(@, ToFloat(score).x) ELSE @,
                !.pop = IF pop # PyNone /\ ToInt(pop).ok THEN @ + ToInt(pop).n ELSE @]
    IN  IF ~DictHas(MI_FIPS_TO_COUNTY, fips) THEN by_county
        ELSE DictPut(by_county, county, data1)

RECURSIVE HpsaLoop(_, _)
HpsaLoop(by_county, features) ==
    IF features = << >> THEN by_county
    ELSE HpsaLoop(HpsaStep(by_county, Head(features)), Tail(features))

\* the row of a county once the scores and the population are popped
HpsaRow(data, prefix) ==
    [key \in {K.county, prefix \o S.hpsa_count, prefix \o S.hpsa_max_score,
              prefix \o S.hpsa_avg_score, prefix \o S.underserved_pop} |->
        CASE key = K.county -> PyStr(data.county)
          [] key = prefix \o S.hpsa_count -> PyInt(data.hpsa_count)
          [] key = prefix \o S.hpsa_max_score ->
                PyStr(IF data.scores # << >> THEN FloatStr(FloatMax(data.scores))
                      ELSE S.empty)
          [] key = prefix \o S.hpsa_avg_score -> PyStr(AvgStr(data.scores))
          [] key = prefix \o S.underserved_pop ->
                PyStr(IF data.pop # 0 THEN IntStr(data.pop) ELSE S.empty)]

_aggregate_hpsa_by_county(features, prefix) ==
    LET by_county == HpsaLoop(<< >>, features)
        values == DictValues(by_county)
    IN  SortByCounty([i \in 1..Len(values) |-> HpsaRow(values[i], prefix)])

(***************************************************************************)
(* _pivot_rows.  A record of the PLACES upstream is a dict of JSON         *)
(* strings: locationname, measureid and the value column.                  *)
(***************************************************************************)
\* a pivot that rounds the raw value without dividing it
PivotValue_NotDivided(raw) ==
    IF ToFloat(raw).ok THEN PyStr(FloatStr(RoundDiv(ToFloat(raw).x, 1, 4))) ELSE raw

\* str(round(float(raw) / 100, 4)), or raw when float(raw) raises
PivotValue(raw) ==
    IF ToFloat(raw).ok THEN PyStr(FloatStr(RoundDiv(ToFloat(raw).x, 100, 4))) ELSE raw

\* the body of the loop over records
PivotStep(by_county, rec, value_col) ==
    LET county == clean_county_name(GetStr(rec, K.locationname))
        row == IF DictHas(by_county, county) THEN DictGet(by_county, county)
               ELSE (K.locationname :> PyStr(county))
        mid == GetStr(rec, K.measureid)
        raw == Get(rec, value_col, PyStr(S.empty))
    IN  DictPut(by_county, county, (mid :> PivotValue(raw)) @@ row)

RECURSIVE PivotLoop(_, _, _)
PivotLoop(by_county, records, value_col) ==
    IF records = << >> THEN by_county
    ELSE PivotLoop(PivotStep(by_county, Head(records), value_col), Tail(records),
                   value_col)

\* key=lambda r: r.get("locationname", "")
LocationBefore(a, b) ==
    StrLess(Get(a, K.locationname, PyStr(S.empty)).s,
            Get(b, K.locationname, PyStr(S.empty)).s)

_pivot_rows(records, value_col) ==
    Sorted(DictValues(PivotLoop(<< >>, records, value_col)), LocationBefore)

(***************************************************************************)
(* The aggregations as operations: each is called on a list of raw         *)
(* records and returns its rows.                                           *)
(***************************************************************************)
\* the longest list of raw records an aggregation is called on
MaxRecs == 3

HospitalRecord(county, h_type, emergency, rating, birthing) ==
    (K.countyparish :> PyStr(county))
    @@ (K.hospital_type :> PyStr(h_type))
    @@ (K.emergency_services :> PyStr(emergency))
    @@ (K.hospital_overall_rating :> PyStr(rating))
    @@ (K.meets_criteria_for_birthing_friendly_designation :> PyStr(birthing))

\* records of the CMS upstream: those of the tests, and records with an untrimmed
\* name, an unrated hospital, an empty county, a county of spaces and other
\* spellings of the values
HospitalPool ==
    << HospitalRecord(<< "W", "A", "Y", "N", "E" >>,
                      << "A", "c", "u", "t", "e", " ", "C", "a", "r", "e", " ", "H", "o", "s", "p", "i", "t", "a", "l", "s" >>,
                      << "Y", "e", "s" >>, << "4" >>, << "Y" >>),
       HospitalRecord(<< "W", "A", "Y", "N", "E" >>,
                      << "C", "r", "i", "t", "i", "c", "a", "l", " ", "A", "c", "c", "e", "s", "s", " ", "H", "o", "s", "p", "i", "t", "a", "l", "s" >>,
                      << "N", "o" >>, << "3" >>, << "N" >>),
       HospitalRecord(<< "O", "A", "K", "L", "A", "N", "D" >>,
                      << "A", "c", "u", "t", "e", " ", "C", "a", "r", "e", " ", "H", "o", "s", "p", "i", "t", "a", "l", "s" >>,
                      << "Y", "e", "s" >>, << "5" >>, << "Y" >>),
       HospitalRecord(<< " ", "w", "a", "y", "n", "e", " " >>,
                      << "C", "h", "i", "l", "d", "r", "e", "n", "s" >>,
                      << "t", "r", "u", "e" >>, << "N", "o", "t", " ", "A", "v", "a", "i", "l", "a", "b", "l", "e" >>, << "y" >>),
       HospitalRecord(<< >>,
                      << "A", "c", "u", "t", "e", " ", "C", "a", "r", "e", " ", "H", "o", "s", "p", "i", "t", "a", "l", "s" >>,
                      << "Y", "e", "s" >>, << "2" >>, << "Y" >>),
       HospitalRecord(<< "S", "T", ".", " ", "C", "L", "A", "I", "R" >>,
                      << "c", "r", "i", "t", "i", "c", "a", "l", " ", "a", "c", "c", "e", "s", "s", " ", "h", "o", "s", "p", "i", "t", "a", "l", "s" >>,
                      << "Y", "E", "S" >>, << "2" >>, << "N" >>),
       HospitalRecord(<< " ", " " >>,
                      << "A", "c", "u", "t", "e", " ", "C", "a", "r", "e", " ", "H", "o", "s", "p", "i", "t", "a", "l", "s" >>,
                      << "Y", "e", "s" >>, << "1" >>, << "Y" >>),
       HospitalRecord(<< "O", "a", "k", "l", "a", "n", "d" >>,
                      << "P", "s", "y", "c", "h", "i", "a", "t", "r", "i", "c" >>,
                      << "N", "o" >>, << >>, << "N" >>) >>

Feature(fips, score, pop) ==
    (K.CMN_STATE_COUNTY_FIPS_CD :> fips)
    @@ (K.HPSA_SCORE :> score)
    @@ (K.HPSA_ESTIMATED_UNDERSERVED_POP :> pop)

\* features of the HRSA upstream: those of the tests, and features with an unknown
\* FIPS code, null attributes, attributes that are strings and a population of 0
FeaturePool ==
    << Feature(PyStr(<< "2", "6", "1", "6", "3" >>), PyInt(20), PyInt(15000)),
       Feature(PyStr(<< "2", "6", "1", "6", "3" >>), PyInt(10), PyInt(5000)),
       Feature(PyStr(<< "2", "6", "1", "2", "5" >>), PyInt(18), PyInt(8000)),
       Feature(PyStr(<< "9", "9", "9", "9", "9" >>), PyInt(20), PyInt(5000)),
       Feature(PyInt(26163), PyNone, PyNone),
       Feature(PyStr(<< "2", "6", "1", "4", "7" >>), PyStr(<< "n", "/", "a" >>), PyStr(<< "1", "2", "0" >>)),
       Feature(PyStr(<< "2", "6", "1", "2", "5" >>), PyInt(12), PyInt(0)) >>

PlacesRecord(locationname, measureid, data_value) ==
    (K.locationname :> PyStr(locationname))
    @@ (K.measureid :> PyStr(measureid))
    @@ (K.data_value :> PyStr(data_value))

\* records of the PLACES upstream
PlacesPool ==
    << PlacesRecord(<< "W", "a", "y", "n", "e" >>, << "D", "I", "A", "B", "E", "T", "E", "S" >>, << "1", "2", ".", "3" >>),
       PlacesRecord(<< "W", "a", "y", "n", "e" >>, << "D", "I", "A", "B", "E", "T", "E", "S" >>, << "1", "0", ".", "4", "5", "6" >>),
       PlacesRecord(<< "W", "a", "y", "n", "e" >>, << "C", "O", "P", "D" >>, << "a", "b", "c" >>),
       PlacesRecord(<< "S", "t", ".", " ", "C", "l", "a", "i", "r" >>, << "D", "I", "A", "B", "E", "T", "E", "S" >>, << "1", "1", ".", "0" >>),
       PlacesRecord(<< "S", "a", "i", "n", "t", " ", "C", "l", "a", "i", "r" >>, << "C", "O", "P", "D" >>, << "9", ".", "5" >>),
       PlacesRecord(<< "O", "a", "k", "l", "a", "n", "d" >>, << "D", "I", "A", "B", "E", "T", "E", "S" >>, << >>) >>

\* the lists of at most n elements of a pool
ListsOf(pool, n) ==
    UNION {[1..k -> Range(pool)] : k \in 0..n}

\* the orders of a list
OrdersOf(xs) ==
    LET n == Len(xs)
        bijections == {f \in [1..n -> 1..n] : \A i, j \in 1..n : f[i] = f[j] => i = j}
    IN  {[i \in 1..n |-> xs[f[i]]] : f \in bijections}

\* the aggregation of a list of raw records
Aggregate(kind, prefix, records) ==
    CASE kind = "hospitals" -> _aggregate_hospitals_by_county(records)
      [] kind = "hpsa" -> _aggregate_hpsa_by_county(records, prefix)
      [] kind = "pivot" -> _pivot_rows(records, K.data_value)

AggregateHospitals ==
    /\ akind = "hospitals"
    /\ apc = "call"
    /\ aout' = _aggregate_hospitals_by_county(arecords)
    /\ apc' = "done"
    /\ UNCHANGED << akind, aprefix, arecords, amental >>
    /\ UNCHANGED aggRest

AggregateHpsa ==
    /\ akind = "hpsa"
    /\ apc = "call"
    /\ aout' = _aggregate_hpsa_by_county(arecords, aprefix)
    /\ apc' = "done"
    /\ UNCHANGED << akind, aprefix, arecords, amental >>
    /\ UNCHANGED aggRest

PivotRows ==
    /\ akind = "pivot"
    /\ apc = "call"
    /\ aout' = _pivot_rows(arecords, K.data_value)
    /\ apc' = "done"
    /\ UNCHANGED << akind, aprefix, arecords, amental >>
    /\ UNCHANGED aggRest

AggIdle ==
    /\ akind = "none"
    /\ aprefix = S.empty
    /\ arecords = << >>
    /\ amental = << >>
    /\ apc = "done"
    /\ aout = NoResult

FetchIdle ==
    /\ fetcher = "none"
    /\ fpc = "done"
    /\ upstreamN = 0
    /\ srvCap = 0
    /\ offset = 0
    /\ all_records = << >>
    /\ requests = << >>
    /\ codesN = 0
    /\ chunkIdx = 0
    /\ merged = << >>
    /\ fresult = NoResult
    /\ ferr = NoError

(***************************************************************************)
(* Claims about the aggregations.                                          *)
(***************************************************************************)
\* C4: _aggregate_hospitals_by_county and _aggregate_hpsa_by_county return
\* the same rows, with the same values and in the same order, for every
\* permutation of the list of records.
C4_AggregationOrderIndependent ==
    (akind \in {"hospitals", "hpsa"} /\ apc = "done") =>
        \A p \in OrdersOf(arecords) : Aggregate(akind, aprefix, p) = aout

\* two counties met in the order Wayne, Oakland come back as Oakland, Wayne,
\* Wayne with the average of two ratings
C4_Witness ==
    /\ akind = "hospitals"
    /\ apc = "done"
    /\ arecords = << HospitalPool[1], HospitalPool[3], HospitalPool[2] >>
    /\ Len(aout) = 2
    /\ aout[1][K.county] = PyStr(<< "O", "a", "k", "l", "a", "n", "d" >>)
    /\ aout[2][K.hospital_count] = PyInt(2)
    /\ aout[2][K.avg_hospital_rating] = PyStr(<< "3", ".", "5" >>)

\* C5 (as claimed): the rows of _pivot_rows are the same for every permutation
\* of the list of records, two records of one county and measure with
\* different values included.
C5_PivotOrderIndependent ==
    (akind = "pivot" /\ apc = "done") =>
        \A p \in OrdersOf(arecords) : Aggregate(akind, aprefix, p) = aout

(***************************************************************************)
(* The measure tables and the columns of the output.                       *)
(***************************************************************************)
\* a Variable, Measure, AccessMeasure or HPSAMeasure: the field of the rows it
\* names, its label, and the format of a Variable
Column(id, label, format) == [id |-> id, label |-> label, format |-> format]

\* PLACES_MEASURES, and its groups in the order of the table
PLACES_MEASURES ==
    [chronic_disease |->
        << Column(<< "D", "I", "A", "B", "E", "T", "E", "S" >>, << "D", "i", "a", "b", "e", "t", "e", "s" >>, ""),
           Column(<< "C", "O", "P", "D" >>, << "C", "O", "P", "D" >>, ""),
           Column(<< "C", "H", "D" >>, << "C", "o", "r", "o", "n", "a", "r", "y", " ", "H", "e", "a", "r", "t", " ", "D", "i", "s", "e", "a", "s", "e" >>, ""),
           Column(<< "O", "B", "E", "S", "I", "T", "Y" >>, << "O", "b", "e", "s", "i", "t", "y" >>, ""),
           Column(<< "C", "S", "M", "O", "K", "I", "N", "G" >>, << "S", "m", "o", "k", "i", "n", "g" >>, ""),
           Column(<< "C", "A", "S", "T", "H", "M", "A" >>, << "C", "u", "r", "r", "e", "n", "t", " ", "A", "s", "t", "h", "m", "a" >>, ""),
           Column(<< "S", "T", "R", "O", "K", "E" >>, << "S", "t", "r", "o", "k", "e" >>, ""),
           Column(<< "B", "P", "H", "I", "G", "H" >>, << "H", "i", "g", "h", " ", "B", "l", "o", "o", "d", " ", "P", "r", "e", "s", "s", "u", "r", "e" >>, ""),
           Column(<< "H", "I", "G", "H", "C", "H", "O", "L" >>, << "H", "i", "g", "h", " ", "C", "h", "o", "l", "e", "s", "t", "e", "r", "o", "l" >>, ""),
           Column(<< "D", "E", "P", "R", "E", "S", "S", "I", "O", "N" >>, << "D", "e", "p", "r", "e", "s", "s", "i", "o", "n" >>, ""),
           Column(<< "A", "R", "T", "H", "R", "I", "T", "I", "S" >>, << "A", "r", "t", "h", "r", "i", "t", "i", "s" >>, ""),
           Column(<< "C", "A", "N", "C", "E", "R" >>, << "C", "a", "n", "c", "e", "r", " ", "(", "e", "x", "c", "l", " ", "s", "k", "i", "n", ")" >>, "") >>,
     health_behaviors |->
        << Column(<< "B", "I", "N", "G", "E" >>, << "B", "i", "n", "g", "e", " ", "D", "r", "i", "n", "k", "i", "n", "g" >>, ""),
           Column(<< "L", "P", "A" >>, << "P", "h", "y", "s", "i", "c", "a", "l", " ", "I", "n", "a", "c", "t", "i", "v", "i", "t", "y" >>, ""),
           Column(<< "S", "L", "E", "E", "P" >>, << "S", "h", "o", "r", "t", " ", "S", "l", "e", "e", "p" >>, "") >>,
     prevention |->
        << Column(<< "C", "H", "E", "C", "K", "U", "P" >>, << "A", "n", "n", "u", "a", "l", " ", "C", "h", "e", "c", "k", "u", "p" >>, ""),
           Column(<< "D", "E", "N", "T", "A", "L" >>, << "D", "e", "n", "t", "a", "l", " ", "V", "i", "s", "i", "t" >>, ""),
           Column(<< "C", "H", "O", "L", "S", "C", "R", "E", "E", "N" >>, << "C", "h", "o", "l", "e", "s", "t", "e", "r", "o", "l", " ", "S", "c", "r", "e", "e", "n", "i", "n", "g" >>, ""),
           Column(<< "M", "A", "M", "M", "O", "U", "S", "E" >>, << "M", "a", "m", "m", "o", "g", "r", "a", "p", "h", "y" >>, ""),
           Column(<< "C", "O", "L", "O", "N", "_", "S", "C", "R", "E", "E", "N" >>, << "C", "o", "l", "o", "r", "e", "c", "t", "a", "l", " ", "S", "c", "r", "e", "e", "n", "i", "n", "g" >>, "") >>,
     disability |->
        << Column(<< "D", "I", "S", "A", "B", "I", "L", "I", "T", "Y" >>, << "A", "n", "y", " ", "D", "i", "s", "a", "b", "i", "l", "i", "t", "y" >>, ""),
           Column(<< "H", "E", "A", "R", "I", "N", "G" >>, << "H", "e", "a", "r", "i", "n", "g", " ", "D", "i", "s", "a", "b", "i", "l", "i", "t", "y" >>, ""),
           Column(<< "V", "I", "S", "I", "O", "N" >>, << "V", "i", "s", "i", "o", "n", " ", "D", "i", "s", "a", "b", "i", "l", "i", "t", "y" >>, ""),
           Column(<< "C", "O", "G", "N", "I", "T", "I", "O", "N" >>, << "C", "o", "g", "n", "i", "t", "i", "v", "e", " ", "D", "i", "s", "a", "b", "i", "l", "i", "t", "y" >>, ""),
           Column(<< "M", "O", "B", "I", "L", "I", "T", "Y" >>, << "M", "o", "b", "i", "l", "i", "t", "y", " ", "D", "i", "s", "a", "b", "i", "l", "i", "t", "y" >>, "") >>,
     sdoh |->
        << Column(<< "F", "O", "O", "D", "I", "N", "S", "E", "C", "U" >>, << "F", "o", "o", "d", " ", "I", "n", "s", "e", "c", "u", "r", "i", "t", "y" >>, ""),
           Column(<< "H", "O", "U", "S", "I", "N", "S", "E", "C", "U" >>, << "H", "o", "u", "s", "i", "n", "g", " ", "I", "n", "s", "e", "c", "u", "r", "i", "t", "y" >>, ""),
           Column(<< "L", "A", "C", "K", "T", "R", "P", "T" >>, << "T", "r", "a", "n", "s", "p", "o", "r", "t", "a", "t", "i", "o", "n", " ", "B", "a", "r", "r", "i", "e", "r", "s" >>, "") >>,
     mental_health |->
        << Column(<< "M", "H", "L", "T", "H" >>, << "F", "r", "e", "q", "u", "e", "n", "t", " ", "M", "e", "n", "t", "a", "l", " ", "D", "i", "s", "t", "r", "e", "s", "s" >>, ""),
           Column(<< "E", "M", "O", "T", "I", "O", "N", "S", "P", "T" >>, << "L", "a", "c", "k", " ", "o", "f", " ", "E", "m", "o", "t", "i", "o", "n", "a", "l", " ", "S", "u", "p", "p", "o", "r", "t" >>, ""),
           Column(<< "L", "O", "N", "E", "L", "I", "N", "E", "S", "S" >>, << "L", "o", "n", "e", "l", "i", "n", "e", "s", "s" >>, "") >>]
PLACES_GROUPS == << "chronic_disease", "health_behaviors", "prevention", "disability", "sdoh", "mental_health" >>

ACCESS_MEASURES ==
    [hospital_access |->
        << Column(<< "h", "o", "s", "p", "i", "t", "a", "l", "_", "c", "o", "u", "n", "t" >>, << "H", "o", "s", "p", "i", "t", "a", "l", " ", "C", "o", "u", "n", "t" >>, ""),
           Column(<< "a", "c", "u", "t", "e", "_", "c", "a", "r", "e", "_", "h", "o", "s", "p", "i", "t", "a", "l", "s" >>, << "A", "c", "u", "t", "e", " ", "C", "a", "r", "e", " ", "H", "o", "s", "p", "i", "t", "a", "l", "s" >>, ""),
           Column(<< "c", "r", "i", "t", "i", "c", "a", "l", "_", "a", "c", "c", "e", "s", "s", "_", "h", "o", "s", "p", "i", "t", "a", "l", "s" >>, << "C", "r", "i", "t", "i", "c", "a", "l", " ", "A", "c", "c", "e", "s", "s", " ", "H", "o", "s", "p", "i", "t", "a", "l", "s" >>, ""),
           Column(<< "e", "m", "e", "r", "g", "e", "n", "c", "y", "_", "s", "e", "r", "v", "i", "c", "e", "s" >>, << "E", "m", "e", "r", "g", "e", "n", "c", "y", " ", "S", "e", "r", "v", "i", "c", "e", "s" >>, ""),
           Column(<< "b", "i", "r", "t", "h", "i", "n", "g", "_", "f", "r", "i", "e", "n", "d", "l", "y" >>, << "B", "i", "r", "t", "h", "i", "n", "g", " ", "F", "r", "i", "e", "n", "d", "l", "y" >>, ""),
           Column(<< "a", "v", "g", "_", "h", "o", "s", "p", "i", "t", "a", "l", "_", "r", "a", "t", "i", "n", "g" >>, << "A", "v", "g", " ", "H", "o", "s", "p", "i", "t", "a", "l", " ", "R", "a", "t", "i", "n", "g" >>, "") >>]

HPSA_MEASURES ==
    [primary_care_shortage |->
        << Column(<< "p", "c", "_", "h", "p", "s", "a", "_", "c", "o", "u", "n", "t" >>, << "P", "r", "i", "m", "a", "r", "y", " ", "C", "a", "r", "e", " ", "H", "P", "S", "A", " ", "C", "o", "u", "n", "t" >>, ""),
           Column(<< "p", "c", "_", "h", "p", "s", "a", "_", "m", "a", "x", "_", "s", "c", "o", "r", "e" >>, << "P", "r", "i", "m", "a", "r", "y", " ", "C", "a", "r", "e", " ", "M", "a", "x", " ", "H", "P", "S", "A", " ", "S", "c", "o", "r", "e" >>, ""),
           Column(<< "p", "c", "_", "h", "p", "s", "a", "_", "a", "v", "g", "_", "s", "c", "o", "r", "e" >>, << "P", "r", "i", "m", "a", "r", "y", " ", "C", "a", "r", "e", " ", "A", "v", "g", " ", "H", "P", "S", "A", " ", "S", "c", "o", "r", "e" >>, ""),
           Column(<< "p", "c", "_", "u", "n", "d", "e", "r", "s", "e", "r", "v", "e", "d", "_", "p", "o", "p" >>, << "P", "r", "i", "m", "a", "r", "y", " ", "C", "a", "r", "e", " ", "U", "n", "d", "e", "r", "s", "e", "r", "v", "e", "d", " ", "P", "o", "p" >>, "") >>,
     mental_health_shortage |->
        << Column(<< "m", "h", "_", "h", "p", "s", "a", "_", "c", "o", "u", "n", "t" >>, << "M", "e", "n", "t", "a", "l", " ", "H", "e", "a", "l", "t", "h", " ", "H", "P", "S", "A", " ", "C", "o", "u", "n", "t" >>, ""),
           Column(<< "m", "h", "_", "h", "p", "s", "a", "_", "m", "a", "x", "_", "s", "c", "o", "r", "e" >>, << "M", "e", "n", "t", "a", "l", " ", "H", "e", "a", "l", "t", "h", " ", "M", "a", "x", " ", "H", "P", "S", "A", " ", "S", "c", "o", "r", "e" >>, ""),
           Column(<< "m", "h", "_", "h", "p", "s", "a", "_", "a", "v", "g", "_", "s", "c", "o", "r", "e" >>, << "M", "e", "n", "t", "a", "l", " ", "H", "e", "a", "l", "t", "h", " ", "A", "v", "g", " ", "H", "P", "S", "A", " ", "S", "c", "o", "r", "e" >>, ""),
           Column(<< "m", "h", "_", "u", "n", "d", "e", "r", "s", "e", "r", "v", "e", "d", "_", "p", "o", "p" >>, << "M", "e", "n", "t", "a", "l", " ", "H", "e", "a", "l", "t", "h", " ", "U", "n", "d", "e", "r", "s", "e", "r", "v", "e", "d", " ", "P", "o", "p" >>, "") >>]

\* the layers in the order fetch_shortage_data walks them
HPSA_LAYERS ==
    << [group |-> "primary_care_shortage", prefix |-> S.pc],
       [group |-> "mental_health_shortage", prefix |-> S.mh] >>

\* ALL_ACCESS_GROUPS
ALL_ACCESS_GROUPS == DOMAIN ACCESS_MEASURES \cup DOMAIN HPSA_MEASURES

\* list(ACCESS_MEASURES.keys()) and list(HPSA_MEASURES.keys())
ACCESS_GROUPS == << "hospital_access" >>
HPSA_GROUPS == << "primary_care_shortage", "mental_health_shortage" >>

\* the loop over the groups: the ValueError of the first name the table lacks,
\* else the measures of the groups in the order the groups are given
RECURSIVE ResolveLoop(_, _, _)
ResolveLoop(table, groups, measures) ==
    IF groups = << >> THEN [raised |-> FALSE, measures |-> measures]
    ELSE IF Head(groups) \notin DOMAIN table THEN [raised |-> TRUE, measures |-> << >>]
    ELSE ResolveLoop(table, Tail(groups), measures \o table[Head(groups)])

\* a resolver for which "all" is the first group of the table
ResolveGroups_AllIsFirstGroup(table, keys, groups) ==
    ResolveLoop(table,
        IF \E i \in 1..Len(groups) : groups[i] = "all" THEN << Head(keys) >> ELSE groups,
        << >>)

\* if "all" in groups: groups = list(table.keys()), then the loop
ResolveGroups(table, keys, groups) ==
    ResolveLoop(table,
        IF \E i \in 1..Len(groups) : groups[i] = "all" THEN keys ELSE groups,
        << >>)

resolve_measures(groups) == ResolveGroups(PLACES_MEASURES, PLACES_GROUPS, groups)
resolve_access_measures(groups) == ResolveGroups(ACCESS_MEASURES, ACCESS_GROUPS, groups)
resolve_hpsa_measures(groups) == ResolveGroups(HPSA_MEASURES, HPSA_GROUPS, groups)

\* resolve_variables of raw variable codes: Variable(code, code, "number")
resolve_variables(raw_variables) ==
    [i \in 1..Len(raw_variables) |->
        Column(raw_variables[i], raw_variables[i], "number")]

(***************************************************************************)
(* format_value and the cells of a CSV row.                                *)
(***************************************************************************)
SUPPRESSED ==
    {PyStr(<< "-", "6", "6", "6", "6", "6", "6", "6", "6", "6" >>), PyStr(<< "-", "6", "6", "6", "6", "6", "6", "6", "6", "6", ".", "0" >>), PyStr(<< "n", "u", "l", "l" >>),
     PyStr(<< "-" >>), PyStr(<< "N", "o", "n", "e" >>), PyNone}

\* num == int(num), and int(num)
IsIntegral(x) == x.m % Pow10(x.e) = 0
IntOf(x) == IF x.m >= 0 THEN x.m \div Pow10(x.e) ELSE 0 - ((0 - x.m) \div Pow10(x.e))

\* f"{num:.1f}"
Fixed1(x) == FloatStr(RoundDiv(x, 1, 1))

\* a format_value that does not look the value up in SUPPRESSED
format_value_NoSuppressed(value, fmt) ==
    IF value = PyNone THEN S.empty
    ELSE IF ~ToFloat(value).ok THEN PyToStr(value)
    ELSE LET num == ToFloat(value).x
         IN  IF fmt = "decimal" THEN Fixed1(num)
             ELSE IF IsIntegral(num) THEN IntStr(IntOf(num)) ELSE FloatStr(num)

format_value(value, fmt) ==
    IF value \in SUPPRESSED THEN S.empty
    ELSE IF ~ToFloat(value).ok THEN PyToStr(value)
    ELSE LET num == ToFloat(value).x
         IN  IF fmt = "decimal" THEN Fixed1(num)
             ELSE IF IsIntegral(num) THEN IntStr(IntOf(num)) ELSE FloatStr(num)

\* the text csv.writer writes for a cell: nothing for None, str(v) otherwise
CsvCell(v) == IF v = PyNone THEN S.empty ELSE PyToStr(v)


(***************************************************************************)
(* Filter and sort, as write_csv, write_places_csv and the access command  *)
(* do them.                                                                *)
(***************************************************************************)
\* a filter that compares the letters as they are written
FilterCounty_CaseSensitive(rows, key, county_filter) ==
    IF Truthy(county_filter)
    THEN SelectSeq(rows,
             LAMBDA r : Contains(county_filter.s, Get(r, key, PyStr(S.empty)).s))
    ELSE rows

\* [r for r in rows if filt in r.get(key, "").lower()] when a filter is given
FilterCounty(rows, key, county_filter) ==
    IF Truthy(county_filter)
    THEN SelectSeq(rows,
             LAMBDA r : Contains(Lower(county_filter.s),
                                 Lower(Get(r, key, PyStr(S.empty)).s)))
    ELSE rows

\* the id of the first column whose label is sort_col in any case, else sort_col
TargetOf(columns, sort_col) ==
    LET hits == {i \in 1..Len(columns) : Lower(columns[i].label) = Lower(sort_col)}
    IN  IF hits # {}
        THEN columns[CHOOSE i \in hits : \A j \in hits : i <= j].id
        ELSE sort_col

\* float(r.get(target, 0) or 0): [ok |-> FALSE] stands for ValueError
SortKey(r, target) ==
    LET v == Get(r, target, PyInt(0))
    IN  IF Truthy(v) THEN ToFloat(v) ELSE [ok |-> TRUE, x |-> Float(0, 0)]

\* a sort that puts the smallest value first
SortByValue_Ascending(rows, target) ==
    IF \E i \in 1..Len(rows) : ~SortKey(rows[i], target).ok
    THEN [raised |-> TRUE, rows |-> rows]
    ELSE [raised |-> FALSE,
          rows |-> Sorted(rows, LAMBDA a, b :
                       FloatLess(SortKey(a, target).x, SortKey(b, target).x))]

\* rows.sort(key=lambda r: float(r.get(target, 0) or 0), reverse=True)
SortByValue(rows, target) ==
    IF \E i \in 1..Len(rows) : ~SortKey(rows[i], target).ok
    THEN [raised |-> TRUE, rows |-> rows]
    ELSE [raised |-> FALSE,
          rows |-> Sorted(rows, LAMBDA a, b :
                       FloatLess(SortKey(b, target).x, SortKey(a, target).x))]

\* key=lambda r: (r.get("NAME", ""), r.get("year", ""))
NameYearBefore(a, b) ==
    LET na == Get(a, K.NAME, PyStr(S.empty)).s
        nb == Get(b, K.NAME, PyStr(S.empty)).s
        ya == Get(a, K.year, PyStr(S.empty)).s
        yb == Get(b, K.year, PyStr(S.empty)).s
    IN  StrLess(na, nb) \/ (na = nb /\ StrLess(ya, yb))

\* what a writer did: whether the sort raised, the rows it wrote in their order,
\* the CSV rows, and the count it returned
Written(raised, rows, lines) ==
    [raised |-> raised, rows |-> rows, lines |-> lines, count |-> Len(rows)]

\* the header row followed by the CSV row of each row
Lines(columns, rows, csv_row(_)) ==
    << columns >> \o [i \in 1..Len(rows) |-> csv_row(rows[i])]

Labels(columns) == [i \in 1..Len(columns) |-> columns[i].label]

write_csv(rows, variables, show_year, county_filter, sort_col) ==
    LET filtered == FilterCounty(rows, K.NAME, county_filter)
        sorted == IF Truthy(sort_col)
                  THEN SortByValue(filtered, TargetOf(variables, sort_col.s))
                  ELSE [raised |-> FALSE, rows |-> Sorted(filtered, NameYearBefore)]
        columns == (IF show_year THEN << S.Year >> ELSE << >>)
                       \o << S.County >> \o Labels(variables)
        csv_row(row) ==
            (IF show_year THEN << CsvCell(Get(row, K.year, PyStr(S.empty))) >>
             ELSE << >>)
                \o << clean_county_name(Get(row, K.NAME, PyStr(S.empty)).s) >>
                \o [i \in 1..Len(variables) |->
                       format_value(Get(row, variables[i].id, PyNone),
                                    variables[i].format)]
    IN  IF filtered = << >> THEN Written(FALSE, << >>, << >>)
        ELSE IF sorted.raised THEN Written(TRUE, << >>, << >>)
        ELSE Written(FALSE, sorted.rows, Lines(columns, sorted.rows, csv_row))

\* a writer that appends a cell only for the measures the row has a key for
write_places_csv_SkipsMissing(rows, measures, county_filter, sort_col) ==
    LET filtered == FilterCounty(rows, K.locationname, county_filter)
        sorted == IF Truthy(sort_col)
                  THEN SortByValue(filtered, TargetOf(measures, sort_col.s))
                  ELSE [raised |-> FALSE, rows |-> filtered]
        columns == << S.County >> \o Labels(measures)
        present(row) == SelectSeq(measures, LAMBDA m : m.id \in DOMAIN row)
        csv_row(row) ==
            << CsvCell(Get(row, K.locationname, PyStr(S.empty))) >>
                \o [i \in 1..Len(present(row)) |->
                       CsvCell(Get(row, present(row)[i].id, PyStr(S.empty)))]
    IN  IF filtered = << >> THEN Written(FALSE, << >>, << >>)
        ELSE IF sorted.raised THEN Written(TRUE, << >>, << >>)
        ELSE Written(FALSE, sorted.rows, Lines(columns, sorted.rows, csv_row))

write_places_csv(rows, measures, county_filter, sort_col) ==
    LET filtered == FilterCounty(rows, K.locationname, county_filter)
        sorted == IF Truthy(sort_col)
                  THEN SortByValue(filtered, TargetOf(measures, sort_col.s))
                  ELSE [raised |-> FALSE, rows |-> filtered]
        columns == << S.County >> \o Labels(measures)
        csv_row(row) ==
            << CsvCell(Get(row, K.locationname, PyStr(S.empty))) >>
                \o [i \in 1..Len(measures) |->
                       CsvCell(Get(row, measures[i].id, PyStr(S.empty)))]
    IN  IF filtered = << >> THEN Written(FALSE, << >>, << >>)
        ELSE IF sorted.raised THEN Written(TRUE, << >>, << >>)
        ELSE Written(FALSE, sorted.rows, Lines(columns, sorted.rows, csv_row))

(***************************************************************************)
(* The merges by county of fetch_shortage_data and of the access command.  *)
(***************************************************************************)
\* a merge that keeps the entry of the first source and drops the later rows
SetdefaultUpdate_SetdefaultOnly(by_county, row) ==
    LET c == Get(row, K.county, PyStr(S.empty)).s
    IN  IF DictHas(by_county, c) THEN by_county
        ELSE DictPut(by_county, c, (K.county :> PyStr(c)))

\* by_county.setdefault(c, {"county": c}).update(row)
SetdefaultUpdate(by_county, row) ==
    LET c == Get(row, K.county, PyStr(S.empty)).s
        old == IF DictHas(by_county, c) THEN DictGet(by_county, c)
               ELSE (K.county :> PyStr(c))
    IN  DictPut(by_county, c, row @@ old)

\* for row in rows: by_county.setdefault(c, {"county": c}).update(row)
RECURSIVE MergeRows(_, _)
MergeRows(by_county, rows) ==
    IF rows = << >> THEN by_county
    ELSE MergeRows(SetdefaultUpdate(by_county, Head(rows)), Tail(rows))

\* the layers fetch_shortage_data does not skip: those with a requested measure
WantedLayers(measures) ==
    SelectSeq(HPSA_LAYERS,
        LAMBDA l : \E m \in Range(HPSA_MEASURES[l.group]) :
                       \E i \in 1..Len(measures) : measures[i].id = m.id)

\* the loop over HPSA_LAYERS; features[g] is what fetch_hpsa_data returns for
\* the layer of group g
RECURSIVE ShortageLoop(_, _, _)
ShortageLoop(by_county, layers, features) ==
    IF layers = << >> THEN by_county
    ELSE ShortageLoop(
             MergeRows(by_county,
                 _aggregate_hpsa_by_county(features[Head(layers).group],
                                           Head(layers).prefix)),
             Tail(layers), features)

fetch_shortage_data(measures, features) ==
    SortByCounty(DictValues(ShortageLoop(<< >>, WantedLayers(measures), features)))

\* fetch_access_data
fetch_access_data(records) == _aggregate_hospitals_by_county(records)

\* fetch_shortage_data on the features fetch_hpsa_data returns for the two
\* layers, every measure requested
FetchShortageData ==
    /\ akind = "shortage"
    /\ apc = "call"
    /\ aout' = fetch_shortage_data(resolve_hpsa_measures(<< "all" >>).measures,
                    [primary_care_shortage |-> arecords,
                     mental_health_shortage |-> amental])
    /\ apc' = "done"
    /\ UNCHANGED << akind, aprefix, arecords, amental >>
    /\ UNCHANGED aggRest

\* the longest list of features of one layer fetch_shortage_data is called on
MaxLayer == 2

\* the features of a layer: two counties, a FIPS code of no county and a
\* feature without numbers
LayerPool == << FeaturePool[1], FeaturePool[3], FeaturePool[4], FeaturePool[5] >>

AggInit ==
    /\ akind \in {"hospitals", "hpsa", "pivot", "shortage"}
    /\ aprefix \in IF akind = "hpsa" THEN {S.pc, S.mh} ELSE {S.empty}
    /\ arecords \in CASE akind = "hospitals" -> ListsOf(HospitalPool, MaxRecs)
                      [] akind = "hpsa" -> ListsOf(FeaturePool, MaxRecs)
                      [] akind = "pivot" -> ListsOf(PlacesPool, MaxRecs)
                      [] akind = "shortage" -> ListsOf(LayerPool, MaxLayer)
    /\ amental \in IF akind = "shortage" THEN ListsOf(LayerPool, MaxLayer) ELSE {<< >>}
    /\ apc = "call"
    /\ aout = NoResult

AggNext ==
    \/ AggregateHospitals
    \/ AggregateHpsa
    \/ PivotRows
    \/ FetchShortageData


(***************************************************************************)
(* The commands that write rows: query (write_csv), places                 *)
(* (write_places_csv) and access, from the rows fetched to the CSV rows    *)
(* written.                                                                *)
(***************************************************************************)
\* the longest list of rows the Census upstream returns
MaxRows == 3

Code1 == << "B", "0", "1", "0", "0", "3", "_", "0", "0", "1", "E" >>
Code2 == << "B", "1", "9", "0", "1", "3", "_", "0", "0", "1", "E" >>

CensusRow(name, county, v1, v2) ==
    (K.NAME :> PyStr(name)) @@ (K.state :> PyStr(MICHIGAN_FIPS))
        @@ (K.county :> PyStr(county)) @@ (Code1 :> v1) @@ (Code2 :> v2)

\* rows of fetch_acs_data for the two codes: numbers, a null, a suppressed
\* value, an empty value and a tie
CensusRowPool ==
    << CensusRow(Name.Wayne, << "1", "6", "3" >>, PyStr(<< "1", "0", "0", "1" >>), PyStr(<< "5", "0", "0", "0", "0" >>)),
       CensusRow(Name.Washtenaw, << "1", "6", "1" >>, PyStr(<< "3", "0", "0" >>), PyStr(<< "7", "2", "0", "0", "0", ".", "5" >>)),
       CensusRow(Name.Oakland, << "1", "2", "5" >>, PyNone, PyStr(<< "-", "6", "6", "6", "6", "6", "6", "6", "6", "6" >>)),
       CensusRow(Name.StClair, << "1", "4", "7" >>, PyStr(<< "-" >>), PyStr(<< "5", "0", "0", "0", "0" >>)),
       CensusRow(Name.Sanilac, << "1", "5", "1" >>, PyStr(<< "3", "0", "0" >>), PyStr(<< >>)) >>

\* row["year"] = str(year)
WithYear(row, year) == (K.year :> PyStr(year)) @@ row

\* what fetch_acs_data returns for a year: one row per county, of up to MaxRows
\* of the counties
RowsOfOneYear ==
    {l \in ListsOf(CensusRowPool, MaxRows) :
        \A i, j \in 1..Len(l) : l[i] = l[j] => i = j}

\* s.split(c)
RECURSIVE Split(_, _)
Split(s, c) ==
    IF \A i \in 1..Len(s) : s[i] # c THEN << s >>
    ELSE LET i == CHOOSE i \in 1..Len(s) : s[i] = c /\ \A j \in 1..(i - 1) : s[j] # c
         IN  << SubSeq(s, 1, i - 1) >> \o Split(SubSeq(s, i + 1, Len(s)), c)

\* [int(y.strip()) for y in years.split(",")]: [ok |-> FALSE] stands for the
\* ValueError of int
year_list(years) ==
    LET parts == Split(years, ",")
        ints == [i \in 1..Len(parts) |-> ToInt(PyStr(Strip(parts[i])))]
    IN  [ok |-> \A i \in 1..Len(ints) : ints[i].ok,
         years |-> [i \in 1..Len(ints) |-> ints[i].n]]

\* fetch_multi_year: the rows of each year of the list in turn, the year set
\* on each; census is what fetch_acs_data returns for a year, here the same
\* counties in every year
RECURSIVE fetch_multi_year(_, _)
fetch_multi_year(census, years) ==
    IF years = << >> THEN << >>
    ELSE [i \in 1..Len(census) |-> WithYear(census[i], IntStr(Head(years)))]
             \o fetch_multi_year(census, Tail(years))

\* values of --years: not given, one year, two years in either order, a year
\* given twice, and a list int() rejects
YearsOptions ==
    {PyNone, PyStr(<< "2", "0", "1", "9" >>), PyStr(<< "2", "0", "1", "9", ",", "2", "0", "2", "0" >>), PyStr(<< "2", "0", "2", "0", ",", " ", "2", "0", "1", "9" >>),
     PyStr(<< "2", "0", "1", "9", ",", "2", "0", "1", "9" >>), PyStr(<< "2", "0", "1", "9", ",", "x" >>)}

\* the sublist of a pool at the given positions
RECURSIVE SubListFrom(_, _, _)
SubListFrom(pool, at, i) ==
    IF i > Len(pool) THEN << >>
    ELSE (IF i \in at THEN << pool[i] >> ELSE << >>) \o SubListFrom(pool, at, i + 1)
SubList(pool, at) == SubListFrom(pool, at, 1)

\* upstreams that hold no record
NoUpstream ==
    [census |-> << >>, places |-> << >>, hospital_access |-> << >>,
     primary_care_shortage |-> << >>, mental_health_shortage |-> << >>]


QueryInit ==
    /\ ocmd = "query"
    /\ oyears \in YearsOptions
    /\ oshow_year = FALSE
    /\ orows = << >>
    /\ ovariables = resolve_variables(<< Code1, Code2 >>)
    /\ ocounty \in {PyNone, PyStr(<< "w", "a" >>), PyStr(<< "s", "a", "i", "n", "t" >>)}
    /\ osort \in {PyNone, PyStr(Lower(Code1)), PyStr(Code2)}
    /\ ogroups = << >>
    /\ \E l \in RowsOfOneYear : oupstream = [NoUpstream EXCEPT !.census = l]
    /\ opc = "fetch"
    /\ cms_rows = << >>
    /\ hrsa_rows = << >>
    /\ omerged = << >>
    /\ oresult = Written(FALSE, << >>, << >>)
    /\ ostderr = S.empty

\* what the PLACES upstream holds: up to MaxRecs records, none of them twice
RecordsOfPlaces ==
    {l \in ListsOf(PlacesPool, MaxRecs) :
        \A i, j \in 1..Len(l) : l[i] = l[j] => i = j}

PlacesInit ==
    /\ ocmd = "places"
    /\ oyears = PyNone
    /\ oshow_year = FALSE
    /\ orows = << >>
    /\ ovariables = resolve_measures(<< "chronic_disease" >>).measures
    /\ ocounty \in {PyNone, PyStr(<< "w", "a" >>), PyStr(<< "z", "z" >>)}
    /\ osort \in {PyNone, PyStr(<< "d", "i", "a", "b", "e", "t", "e", "s" >>), PyStr(<< "C", "O", "P", "D" >>), PyStr(<< "z", "z", "z" >>)}
    /\ ogroups = << >>
    /\ \E l \in RecordsOfPlaces : oupstream = [NoUpstream EXCEPT !.places = l]
    /\ opc = "fetch"
    /\ cms_rows = << >>
    /\ hrsa_rows = << >>
    /\ omerged = << >>
    /\ oresult = Written(FALSE, << >>, << >>)
    /\ ostderr = S.empty

\* the groups of an access command
AccessGroups ==
    { << >>, << "bogus" >>, << "all" >>, << "hospital_access" >>,
      << "primary_care_shortage" >>, << "mental_health_shortage" >>,
      << "mental_health_shortage", "primary_care_shortage" >>,
      << "primary_care_shortage", "hospital_access" >> }

AccessInit ==
    /\ ocmd = "access"
    /\ oyears = PyNone
    /\ oshow_year = FALSE
    /\ orows = << >>
    /\ ovariables = << >>
    /\ ocounty \in {PyNone, PyStr(<< "w", "a" >>), PyStr(<< "z", "z" >>)}
    /\ osort \in {PyNone, PyStr(<< "h", "o", "s", "p", "i", "t", "a", "l", " ", "c", "o", "u", "n", "t" >>), PyStr(<< "p", "c", "_", "h", "p", "s", "a", "_", "m", "a", "x", "_", "s", "c", "o", "r", "e" >>),
                  PyStr(<< "c", "o", "u", "n", "t", "y" >>)}
    /\ ogroups \in AccessGroups
    /\ \E h \in SUBSET {1, 3, 6}, p \in SUBSET {1, 3}, m \in SUBSET {2, 6} :
          oupstream = [NoUpstream EXCEPT
                          !.hospital_access = SubList(HospitalPool, h),
                          !.primary_care_shortage = SubList(FeaturePool, p),
                          !.mental_health_shortage = SubList(FeaturePool, m)]
    /\ opc = "fetch"
    /\ cms_rows = << >>
    /\ hrsa_rows = << >>
    /\ omerged = << >>
    /\ oresult = Written(FALSE, << >>, << >>)
    /\ ostderr = S.empty

OutInit == QueryInit \/ PlacesInit \/ AccessInit

OutIdle ==
    /\ ocmd = "none"
    /\ oyears = PyNone
    /\ oshow_year = FALSE
    /\ orows = << >>
    /\ ovariables = << >>
    /\ ocounty = PyNone
    /\ osort = PyNone
    /\ ogroups = << >>
    /\ oupstream = NoUpstream
    /\ opc = "done"
    /\ cms_rows = << >>
    /\ hrsa_rows = << >>
    /\ omerged = << >>
    /\ oresult = Written(FALSE, << >>, << >>)
    /\ ostderr = S.empty

\* an end of a command that says nothing when the count is 0
Finish_NoNotice(w) ==
    /\ oresult' = w
    /\ opc' = IF w.raised THEN "raised" ELSE "done"
    /\ \E output \in BOOLEAN :
          ostderr' = IF w.raised THEN S.Traceback
                     ELSE IF output /\ w.count # 0 THEN S.Wrote
                     ELSE S.empty

\* the end of a command, with or without --output: an uncaught ValueError of
\* the sort ends it as a failure; a count of 0 is answered with the notice
Finish(w) ==
    /\ oresult' = w
    /\ opc' = IF w.raised THEN "raised" ELSE "done"
    /\ \E output \in BOOLEAN :
          ostderr' = IF w.raised THEN S.Traceback
                     ELSE IF w.count = 0 THEN S.NoMatching
                     ELSE IF output THEN S.Wrote
                     ELSE S.empty

\* query, up to the rows fetched: fetch_multi_year when --years is given,
\* fetch_acs_data otherwise; a missing or rejected key and an API error end the
\* command with exit code 1, and so does the ValueError of int
QueryFetch ==
    /\ ocmd = "query"
    /\ opc = "fetch"
    /\ \E fails \in BOOLEAN :
          IF fails
          THEN /\ opc' = "exit1"
               /\ ostderr' = S.Error
               /\ UNCHANGED << orows, oshow_year >>
          ELSE IF Truthy(oyears) /\ ~year_list(oyears.s).ok
          THEN /\ opc' = "exit1"
               /\ ostderr' = S.Traceback
               /\ UNCHANGED << orows, oshow_year >>
          ELSE /\ orows' = IF Truthy(oyears)
                           THEN fetch_multi_year(oupstream.census,
                                                 year_list(oyears.s).years)
                           ELSE oupstream.census
               /\ oshow_year' = Truthy(oyears)
               /\ opc' = "write"
               /\ UNCHANGED ostderr
    /\ UNCHANGED << ocmd, oyears, ovariables, ocounty, osort, ogroups,
                    oupstream, cms_rows, hrsa_rows, omerged, oresult >>
    /\ UNCHANGED outRest

\* places, up to the rows fetched: fetch_places_data pivots the records of the
\* upstream; a PlacesAPIError ends the command with exit code 1
PlacesFetch ==
    /\ ocmd = "places"
    /\ opc = "fetch"
    /\ \E fails \in BOOLEAN :
          IF fails
          THEN /\ opc' = "exit1"
               /\ ostderr' = S.Error
               /\ UNCHANGED orows
          ELSE /\ orows' = _pivot_rows(oupstream.places, K.data_value)
               /\ opc' = "write"
               /\ UNCHANGED ostderr
    /\ UNCHANGED << ocmd, oyears, oshow_year, ovariables, ocounty, osort, ogroups,
                    oupstream, cms_rows, hrsa_rows, omerged, oresult >>
    /\ UNCHANGED outRest

\* query, from the rows fetched: write_csv on the rows
WriteCsv ==
    /\ ocmd = "query"
    /\ opc = "write"
    /\ Finish(write_csv(orows, ovariables, oshow_year, ocounty, osort))
    /\ UNCHANGED << ocmd, oyears, oshow_year, orows, ovariables, ocounty, osort, ogroups,
                    oupstream, cms_rows, hrsa_rows, omerged >>
    /\ UNCHANGED outRest

\* places, from the rows fetched: write_places_csv on the rows
WritePlacesCsv ==
    /\ ocmd = "places"
    /\ opc = "write"
    /\ Finish(write_places_csv(orows, ovariables, ocounty, osort))
    /\ UNCHANGED << ocmd, oyears, oshow_year, orows, ovariables, ocounty, osort, ogroups,
                    oupstream, cms_rows, hrsa_rows, omerged >>
    /\ UNCHANGED outRest

\* [g for g in groups if g in table], all the groups of the table for "all"
GroupsIn(table, groups) ==
    IF \E i \in 1..Len(groups) : groups[i] = "all"
    THEN SelectSeq(ACCESS_GROUPS \o HPSA_GROUPS, LAMBDA g : g \in DOMAIN table)
    ELSE SelectSeq(groups, LAMBDA g : g \in DOMAIN table)

\* unknown = [g for g in groups if g not in ALL_ACCESS_GROUPS], unless "all" is given
UnknownGroups(groups) ==
    IF \E i \in 1..Len(groups) : groups[i] = "all" THEN << >>
    ELSE SelectSeq(groups, LAMBDA g : g \notin ALL_ACCESS_GROUPS)

cms_measures == resolve_access_measures(GroupsIn(ACCESS_MEASURES, ogroups)).measures
hrsa_measures == resolve_hpsa_measures(GroupsIn(HPSA_MEASURES, ogroups)).measures
all_measure_cols == cms_measures \o hrsa_measures

\* access, up to the rows of the two sources: no group or an unknown group ends
\* the command with exit code 1, and so does an error of a fetch
AccessFetch ==
    /\ ocmd = "access"
    /\ opc = "fetch"
    /\ IF ogroups = << >> \/ UnknownGroups(ogroups) # << >>
       THEN /\ opc' = "exit1"
            /\ ostderr' = S.Error
            /\ UNCHANGED << cms_rows, hrsa_rows >>
       ELSE \E fails \in BOOLEAN :
               IF fails
               THEN /\ opc' = "exit1"
                    /\ ostderr' = S.Error
                    /\ UNCHANGED << cms_rows, hrsa_rows >>
               ELSE /\ cms_rows' = IF cms_measures # << >>
                                   THEN fetch_access_data(oupstream.hospital_access)
                                   ELSE << >>
                    /\ hrsa_rows' = IF hrsa_measures # << >>
                                    THEN fetch_shortage_data(hrsa_measures, oupstream)
                                    ELSE << >>
                    /\ opc' = "merge"
                    /\ UNCHANGED ostderr
    /\ UNCHANGED << ocmd, oyears, oshow_year, orows, ovariables, ocounty, osort, ogroups,
                    oupstream, omerged, oresult >>
    /\ UNCHANGED outRest

\* access: the merge of the CMS rows and the HRSA rows by county
AccessMerge ==
    /\ ocmd = "access"
    /\ opc = "merge"
    /\ omerged' = SortByCounty(DictValues(MergeRows(MergeRows(<< >>, cms_rows),
                                                    hrsa_rows)))
    /\ opc' = "write"
    /\ UNCHANGED << ocmd, oyears, oshow_year, orows, ovariables, ocounty, osort, ogroups,
                    oupstream, cms_rows, hrsa_rows, oresult, ostderr >>
    /\ UNCHANGED outRest

\* access: filter, sort and _write_rows
AccessWrite ==
    /\ ocmd = "access"
    /\ opc = "write"
    /\ LET filtered == FilterCounty(omerged, K.county, ocounty)
           sorted == IF Truthy(osort)
                     THEN SortByValue(filtered, TargetOf(all_measure_cols, osort.s))
                     ELSE [raised |-> FALSE, rows |-> filtered]
           columns == << S.County >> \o Labels(all_measure_cols)
           csv_row(row) ==
               << CsvCell(Get(row, K.county, PyStr(S.empty))) >>
                   \o [i \in 1..Len(all_measure_cols) |->
                          CsvCell(Get(row, all_measure_cols[i].id, PyStr(S.empty)))]
       IN  Finish(IF sorted.raised THEN Written(TRUE, << >>, << >>)
                  ELSE IF sorted.rows = << >> THEN Written(FALSE, << >>, << >>)
                  ELSE Written(FALSE, sorted.rows,
                               Lines(columns, sorted.rows, csv_row)))
    /\ UNCHANGED << ocmd, oyears, oshow_year, orows, ovariables, ocounty, osort, ogroups,
                    oupstream, cms_rows, hrsa_rows, omerged >>
    /\ UNCHANGED outRest

OutNext ==
    \/ QueryFetch
    \/ WriteCsv
    \/ PlacesFetch
    \/ WritePlacesCsv
    \/ AccessFetch
    \/ AccessMerge
    \/ AccessWrite

(***************************************************************************)
(* Claims about the merges and about the order of the rows written.        *)
(***************************************************************************)
CountyOf(r) == Get(r, K.county, PyStr(S.empty)).s

\* result is the merge by county of the sources, a list of lists of rows in
\* the order they were merged: one row per county of any source, holding every
\* field of the county's rows, each with the value of the last source that
\* defines it
IsMergeOf(result, sources) ==
    LET rowsOf(s, k) == {r \in Range(sources[s]) : CountyOf(r) = k}
        keys == UNION {{CountyOf(r) : r \in Range(sources[s])} : s \in 1..Len(sources)}
    IN  /\ \A i \in 1..Len(result) : CountyOf(result[i]) \in keys
        /\ \A k \in keys :
              LET at == {i \in 1..Len(result) : CountyOf(result[i]) = k}
              IN  /\ Cardinality(at) = 1
                  /\ \A i \in at :
                        /\ DOMAIN result[i] =
                               UNION {UNION {DOMAIN r : r \in rowsOf(s, k)} :
                                          s \in 1..Len(sources)}
                        /\ \A f \in DOMAIN result[i] :
                              LET defs == {s \in 1..Len(sources) :
                                              \E r \in rowsOf(s, k) : f \in DOMAIN r}
                                  last == CHOOSE s \in defs : \A t \in defs : t <= s
                              IN  \E r \in rowsOf(last, k) :
                                      f \in DOMAIN r /\ result[i][f] = r[f]

\* the rows of the layers fetch_shortage_data fetched, in the order of the layers
LayerRows ==
    LET layers == WantedLayers(hrsa_measures)
    IN  [i \in 1..Len(layers) |->
            _aggregate_hpsa_by_county(oupstream[layers[i].group], layers[i].prefix)]

\* C6: the merge of the HPSA layers in fetch_shortage_data and the merge of the
\* CMS rows with the HRSA rows in the access command hold exactly one row per
\* county of any source, with every field any source defined for the county,
\* the value of the source merged later kept where two sources define a field.
C6_MergeKeepsEveryCountyAndField ==
    /\ (ocmd = "access" /\ opc \in {"merge", "write", "done", "raised"}
            /\ hrsa_measures # << >>) =>
           IsMergeOf(hrsa_rows, LayerRows)
    /\ (ocmd = "access" /\ opc \in {"write", "done", "raised"}) =>
           IsMergeOf(omerged, << cms_rows, hrsa_rows >>)

\* Wayne is in the CMS rows and in both HPSA layers, St. Clair in the CMS rows
\* only and Saint Clair in the mental-health layer only: the merged row of
\* Wayne holds the fields of the three
C6_Witness ==
    /\ ocmd = "access"
    /\ opc = "write"
    /\ Len(cms_rows) = 2
    /\ Len(hrsa_rows) = 2
    /\ Len(omerged) = 3
    /\ \E i \in 1..3 :
          /\ CountyOf(omerged[i]) = << "W", "a", "y", "n", "e" >>
          /\ {<< "h", "o", "s", "p", "i", "t", "a", "l", "_", "c", "o", "u", "n", "t" >>, << "p", "c", "_", "h", "p", "s", "a", "_", "c", "o", "u", "n", "t" >>, << "m", "h", "_", "h", "p", "s", "a", "_", "c", "o", "u", "n", "t" >>}
                 \subseteq DOMAIN omerged[i]
    /\ \E i \in 1..3 :
          /\ CountyOf(omerged[i]) = << "S", "t", ".", " ", "C", "l", "a", "i", "r" >>
          /\ << "m", "h", "_", "h", "p", "s", "a", "_", "c", "o", "u", "n", "t" >> \notin DOMAIN omerged[i]
    /\ \E i \in 1..3 :
          /\ CountyOf(omerged[i]) = << "S", "a", "i", "n", "t", " ", "C", "l", "a", "i", "r" >>
          /\ << "h", "o", "s", "p", "i", "t", "a", "l", "_", "c", "o", "u", "n", "t" >> \notin DOMAIN omerged[i]

\* the columns of the command, and the field --sort names
OutColumns == IF ocmd = "access" THEN all_measure_cols ELSE ovariables
SortField == TargetOf(OutColumns, osort.s)

\* the number a row holds in a field: 0 for a row that lacks the field or holds
\* null or an empty value
NumericValue(row, field) ==
    IF field \notin DOMAIN row \/ row[field] \in {PyNone, PyStr(S.empty)}
    THEN Float(0, 0)
    ELSE ToFloat(row[field]).x

\* the position of the County cell in a CSV row
CountyCell == IF oshow_year THEN 2 ELSE 1

\* the name a command writes in the County cell of a row
NameWritten(row) ==
    CASE ocmd = "query" -> clean_county_name(Get(row, K.NAME, PyStr(S.empty)).s)
      [] ocmd = "places" -> Get(row, K.locationname, PyStr(S.empty)).s
      [] ocmd = "access" -> CountyOf(row)

\* C8: with a sort column, the data rows written by write_csv, by
\* write_places_csv and by the access command follow the header in an order in
\* which the number of the column never increases, a row without the field or
\* with an empty value counting as 0.
C8_SortedRowsNeverIncrease ==
    (opc = "done" /\ Truthy(osort) /\ oresult.rows # << >>) =>
        /\ Len(oresult.lines) = Len(oresult.rows) + 1
        /\ \A i \in 1..Len(oresult.rows) :
              oresult.lines[i + 1][CountyCell] = NameWritten(oresult.rows[i])
        /\ \A i, j \in 1..Len(oresult.rows) :
              i < j => ~FloatLess(NumericValue(oresult.rows[i], SortField),
                                  NumericValue(oresult.rows[j], SortField))

\* query sorted by the second code: the row with the greatest number came
\* last from the upstream and is written first, the row with an empty value
\* counts as 0 and is written before the row with a negative number
C8_Witness ==
    /\ ocmd = "query"
    /\ opc = "done"
    /\ osort = PyStr(Code2)
    /\ ocounty = PyNone
    /\ ~oshow_year
    /\ orows = << CensusRowPool[5], CensusRowPool[3], CensusRowPool[2] >>
    /\ oresult.rows = << CensusRowPool[2], CensusRowPool[5], CensusRowPool[3] >>
    /\ Len(oresult.lines) = 4

\* C9: a sort never fails on a value that is present and is no number: the
\* command ends with its rows written.
C9_NonNumericValueSortsAsZero ==
    Truthy(osort) => opc # "raised"

\* the pair (County cell, Year cell) of a CSV row, the year empty when there is
\* no Year column
WrittenName(line) == line[CountyCell]
WrittenYear(line) == IF oshow_year THEN line[1] ELSE S.empty

\* C10: with no sort column the data rows of write_csv are in ascending order
\* of (county name as written, year).
C10_DefaultOrderIsByWrittenNameAndYear ==
    (ocmd = "query" /\ opc = "done" /\ ~Truthy(osort)) =>
        \A i, j \in 2..Len(oresult.lines) :
            i < j =>
                LET a == oresult.lines[i]
                    b == oresult.lines[j]
                IN  \/ StrLess(WrittenName(a), WrittenName(b))
                    \/ /\ WrittenName(a) = WrittenName(b)
                       /\ StrLeq(WrittenYear(a), WrittenYear(b))

\* C11: no two data rows of one query output have the same (county, year):
\* one row per county without --years, one row per county and year with it.
C11_OneRowPerCountyAndYear ==
    (ocmd = "query" /\ opc = "done") =>
        \A i, j \in 2..Len(oresult.lines) :
            i # j =>
                << WrittenName(oresult.lines[i]), WrittenYear(oresult.lines[i]) >>
                    # << WrittenName(oresult.lines[j]), WrittenYear(oresult.lines[j]) >>

\* the rows the writer of the command is called on, and the field that names
\* the county in them
InputRows == IF ocmd = "access" THEN omerged ELSE orows
IdentityField ==
    CASE ocmd = "query" -> K.NAME
      [] ocmd = "places" -> K.locationname
      [] ocmd = "access" -> K.county

\* f occurs in s when the case of the letters is ignored
ContainsIgnoringCase(f, s) ==
    \E i \in 1..(Len(s) - Len(f) + 1) :
        \A k \in 1..Len(f) : LowerChar(s[i + k - 1]) = LowerChar(f[k])

\* the positions of the input rows the filter keeps: all when no filter is given
MatchingAt ==
    {i \in 1..Len(InputRows) :
        Truthy(ocounty) =>
            ContainsIgnoringCase(ocounty.s,
                Get(InputRows[i], IdentityField, PyStr(S.empty)).s)}

\* the number of times row r is at the positions at of rows
TimesAt(r, rows, at) == Cardinality({i \in at : rows[i] = r})

\* C12: the rows a command writes are exactly the input rows whose county
\* field contains the filter ignoring case, each as often as it is in the
\* input; they are in the order of the input when no sort reorders them, and
\* rows with equal numbers in the sort column keep the order of the input.
C12_FilterKeepsExactlyTheMatchingRows ==
    opc = "done" =>
        LET input == InputRows
            at == MatchingAt
        IN  /\ \A r \in Range(input) \cup Range(oresult.rows) :
                  TimesAt(r, oresult.rows, DOMAIN oresult.rows)
                      = TimesAt(r, input, at)
            /\ oresult.rows # << >> => Len(oresult.lines) = Len(oresult.rows) + 1
            /\ (ocmd # "query" /\ ~Truthy(osort)) =>
                  oresult.rows = SubList(input, at)
            /\ Truthy(osort) =>
                  \A p, q \in 1..Len(oresult.rows) :
                      (/\ p < q
                       /\ oresult.rows[p] # oresult.rows[q]
                       /\ NumericValue(oresult.rows[p], SortField)
                              = NumericValue(oresult.rows[q], SortField)) =>
                          \E i, j \in at :
                              /\ i < j
                              /\ input[i] = oresult.rows[p]
                              /\ input[j] = oresult.rows[q]

\* query --county wa on the rows of Oakland, Wayne and Washtenaw: Oakland is
\* dropped, the two others are written
C12_Witness ==
    /\ ocmd = "query"
    /\ opc = "done"
    /\ ocounty = PyStr(<< "w", "a" >>)
    /\ ~Truthy(osort)
    /\ orows = << CensusRowPool[3], CensusRowPool[1], CensusRowPool[2] >>
    /\ oresult.rows = << CensusRowPool[2], CensusRowPool[1] >>
    /\ Len(oresult.lines) = 3

\* the County cell write_csv writes for a row
CountyCellOf(row) == clean_county_name(Get(row, K.NAME, PyStr(S.empty)).s)

\* C30: under a county filter write_csv writes a row exactly when the County
\* cell of the row, the cleaned county name, contains the filter ignoring
\* case.
C30_FilterAgreesWithCountyCell ==
    (ocmd = "query" /\ opc = "done" /\ Truthy(ocounty)) =>
        \A i \in 1..Len(orows) :
            (\E r \in 1..Len(oresult.rows) : oresult.rows[r] = orows[i])
                <=> ContainsIgnoringCase(ocounty.s, CountyCellOf(orows[i]))

\* C13: when the county filter leaves no row, the writer returns 0 and writes
\* neither a header nor a data row, and the command echoes "No matching rows
\* found." and ends without an error exit status; a command that ends with
\* exit code 1 never echoes that notice.
C13_NoRowsGivesNoticeNotError ==
    /\ (opc \in {"done", "raised"} /\ Truthy(ocounty) /\ MatchingAt = {}) =>
           /\ opc = "done"
           /\ oresult.count = 0
           /\ oresult.lines = << >>
           /\ ostderr = S.NoMatching
    /\ opc \in {"exit1", "raised"} => ostderr \in {S.Error, S.Traceback}

\* places --county zz --sort COPD on rows of two counties, one of them with a
\* COPD value that is no number: no row is left to sort or to write
C13_Witness ==
    /\ ocmd = "places"
    /\ opc = "done"
    /\ ocounty = PyStr(<< "z", "z" >>)
    /\ osort = PyStr(<< "C", "O", "P", "D" >>)
    /\ Len(orows) = 2
    /\ \E i \in 1..2 : Get(orows[i], << "C", "O", "P", "D" >>, PyNone) = PyStr(<< "a", "b", "c" >>)
    /\ oresult.count = 0
    /\ oresult.lines = << >>
    /\ ostderr = S.NoMatching

\* the upstream records of a county and a measure: the county of a record is
\* its cleaned locationname
PlacesRecordsOf(county, measureid) ==
    {i \in DOMAIN oupstream.places :
        /\ clean_county_name(GetStr(oupstream.places[i], K.locationname)) = county
        /\ GetStr(oupstream.places[i], K.measureid) = measureid}

\* C20: the pivoted row of a county has no key for a requested measure the
\* county has no record of, and write_places_csv writes for every county a
\* row of 1 + (number of requested measures) cells, as wide as the header,
\* with the empty string at the position of each measure the row has no key
\* for.
C20_MissingMeasureIsAnEmptyCell ==
    (ocmd = "places" /\ opc \in {"write", "done", "raised"}) =>
        /\ \A r \in DOMAIN orows : \A j \in DOMAIN ovariables :
               ovariables[j].id \in DOMAIN orows[r]
                   => PlacesRecordsOf(orows[r][K.locationname].s, ovariables[j].id) # {}
        /\ opc = "done" =>
               /\ \A l \in DOMAIN oresult.lines :
                      Len(oresult.lines[l]) = 1 + Len(ovariables)
               /\ Len(oresult.lines) \in {0, 1 + Len(oresult.rows)}
               /\ \A r \in DOMAIN oresult.rows : \A j \in DOMAIN ovariables :
                      ovariables[j].id \notin DOMAIN oresult.rows[r]
                          => oresult.lines[r + 1][j + 1] = S.empty

\* places on a DIABETES record of Wayne and a COPD record of Saint Clair: the
\* row of Wayne has no COPD key and its line has an empty second measure cell
C20_Witness ==
    /\ ocmd = "places"
    /\ opc = "done"
    /\ ~Truthy(ocounty)
    /\ ~Truthy(osort)
    /\ oupstream.places = << PlacesPool[1], PlacesPool[5] >>
    /\ Len(orows) = 2
    /\ << "C", "O", "P", "D" >> \notin DOMAIN orows[2]
    /\ Len(oresult.lines) = 3
    /\ oresult.lines[3][1] = << "W", "a", "y", "n", "e" >>
    /\ oresult.lines[3][2] = << "0", ".", "1", "2", "3" >>
    /\ oresult.lines[3][3] = S.empty
    /\ Len(oresult.lines[3]) = 1 + Len(ovariables)
    /\ Len(oresult.lines[1]) = Len(oresult.lines[3])

(***************************************************************************)
(* The info command: the Census profile of the counties that match, then   *)
(* the rows of PLACES, of CMS and of HRSA, each in its own try block.      *)
(***************************************************************************)
\* the variables of every topic: two of them, the codes the tests know
all_vars ==
    << Column(Code1, << "T", "o", "t", "a", "l", " ", "P", "o", "p", "u", "l", "a", "t", "i", "o", "n" >>, "number"),
       Column(Code2, << "M", "e", "d", "i", "a", "n", " ", "H", "o", "u", "s", "e", "h", "o", "l", "d", " ", "I", "n", "c", "o", "m", "e" >>, "dollar") >>


\* [r for r in rows if filt in r.get("NAME", "").lower()]
Matches(rows, filt) ==
    SelectSeq(rows, LAMBDA r : Contains(filt, Lower(Get(r, K.NAME, PyStr(S.empty)).s)))

\* the rows of a list of lists, one after the other
RECURSIVE Flatten(_)
Flatten(ls) == IF ls = << >> THEN << >> ELSE Head(ls) \o Flatten(Tail(ls))

\* the header and, for each match, a row per variable
CensusLines(ms) ==
    << << S.County, S.Field, S.Value >> >>
        \o Flatten([i \in 1..Len(ms) |->
               [j \in 1..Len(all_vars) |->
                   << clean_county_name(Get(ms[i], K.NAME, PyStr(S.empty)).s),
                      all_vars[j].label,
                      format_value(Get(ms[i], all_vars[j].id, PyNone),
                                   all_vars[j].format) >>]])

\* for each match, a row per measure of the first row of the source whose name
\* holds the filter (the loop over the source breaks there)
SecondaryLines(ms, rows, key, measures, prefix, filt) ==
    LET hits == {k \in 1..Len(rows) :
                    Contains(filt, Lower(Get(rows[k], key, PyStr(S.empty)).s))}
        first == CHOOSE k \in hits : \A h \in hits : k <= h
    IN  Flatten([i \in 1..Len(ms) |->
            IF hits = {} THEN << >>
            ELSE [j \in 1..Len(measures) |->
                     << clean_county_name(Get(ms[i], K.NAME, PyStr(S.empty)).s),
                        prefix \o measures[j].label,
                        CsvCell(Get(rows[first], measures[j].id, PyStr(S.empty))) >>]])

\* what the upstreams of an info command hold
InfoUpstreams ==
    {[census |-> SubList(CensusRowPool, c),
      places |-> SubList(PlacesPool, p),
      hospital_access |-> SubList(HospitalPool, h),
      primary_care_shortage |-> SubList(FeaturePool, f),
      mental_health_shortage |-> SubList(FeaturePool, f \cap {6})] :
        c \in {{}, {1, 4}, {1, 2, 3}}, p \in {{}, {1, 3, 4, 5}},
        h \in {{}, {1, 3, 6}}, f \in {{}, {1, 3, 6}}}

InfoInit ==
    /\ county_name \in {<< "w", "a" >>, << "W", "a", "y", "n", "e" >>, << "c", "l", "a", "i", "r" >>, << "z", "z" >>}
    /\ iupstream \in InfoUpstreams
    /\ ipc = "census"
    /\ matches = << >>
    /\ iwritten = << >>
    /\ iattempted = << >>
    /\ ifailed = {}

InfoIdle ==
    /\ county_name = S.empty
    /\ iupstream = [census |-> << >>, places |-> << >>, hospital_access |-> << >>,
                    primary_care_shortage |-> << >>, mental_health_shortage |-> << >>]
    /\ ipc = "none"
    /\ matches = << >>
    /\ iwritten = << >>
    /\ iattempted = << >>
    /\ ifailed = {}

filt == Lower(county_name)

\* info up to the Census rows written: a missing key, a rejected key and an
\* error of the Census API end the command with exit code 1, and so does a name
\* no county matches
InfoCensus ==
    /\ ipc = "census"
    /\ \E outcome \in {"rows", "MissingAPIKeyError", "InvalidAPIKeyError",
                       "CensusAPIError"} :
          /\ iattempted' = IF outcome = "MissingAPIKeyError" THEN << >>
                           ELSE << "census" >>
          /\ IF outcome # "rows" \/ Matches(iupstream.census, filt) = << >>
             THEN /\ ipc' = "exit1"
                  /\ UNCHANGED << matches, iwritten >>
             ELSE /\ matches' = Matches(iupstream.census, filt)
                  /\ iwritten' = CensusLines(matches')
                  /\ ipc' = "places"
    /\ UNCHANGED << county_name, iupstream, ifailed >>
    /\ UNCHANGED infoRest

\* an error of a secondary source ends the command
ExceptPass_Propagates(source, next) ==
    /\ ifailed' = ifailed \cup {source}
    /\ ipc' = "exit1"
    /\ UNCHANGED iwritten

\* except Exception: pass
ExceptPass(source, next) ==
    /\ ifailed' = ifailed \cup {source}
    /\ ipc' = next
    /\ UNCHANGED iwritten

\* one try block: the fetch raises, or the rows of the source are written
TryBlock(source, next, lines) ==
    /\ iattempted' = Append(iattempted, source)
    /\ \E raises \in BOOLEAN :
          IF raises THEN ExceptPass(source, next)
          ELSE /\ iwritten' = iwritten \o lines
               /\ ipc' = next
               /\ UNCHANGED ifailed
    /\ UNCHANGED << county_name, iupstream, matches >>
    /\ UNCHANGED infoRest

InfoPlaces ==
    /\ ipc = "places"
    /\ TryBlock("places", "cms",
           SecondaryLines(matches, _pivot_rows(iupstream.places, K.data_value),
                          K.locationname, resolve_measures(<< "all" >>).measures,
                          S.PLACES, filt))

InfoCms ==
    /\ ipc = "cms"
    /\ TryBlock("cms", "hrsa",
           SecondaryLines(matches, fetch_access_data(iupstream.hospital_access),
                          K.county, resolve_access_measures(<< "all" >>).measures,
                          S.Access, filt))

InfoHrsa ==
    /\ ipc = "hrsa"
    /\ TryBlock("hrsa", "done",
           SecondaryLines(matches,
               fetch_shortage_data(
                   resolve_hpsa_measures(<< "all" >>).measures, iupstream),
               K.county,
               resolve_hpsa_measures(<< "all" >>).measures,
               S.Shortage, filt))

InfoNext ==
    \/ InfoCensus
    \/ InfoPlaces
    \/ InfoCms
    \/ InfoHrsa

(***************************************************************************)
(* Claims about the info command.                                          *)
(***************************************************************************)
\* C7: once the Census rows are written, an error of PLACES, CMS or HRSA removes
\* none of them, does not end the command with a failure and leaves the later
\* sources to be attempted; a failure of the Census fetch ends the command
\* with exit code 1 and nothing written.
C7_SecondaryFailureKeepsCensus ==
    /\ ipc \in {"places", "cms", "hrsa", "done"} =>
          /\ matches # << >>
          /\ Len(iwritten) >= Len(CensusLines(matches))
          /\ SubSeq(iwritten, 1, Len(CensusLines(matches))) = CensusLines(matches)
    /\ ifailed # {} => ipc \in {"cms", "hrsa", "done"}
    /\ ipc = "cms" => iattempted = << "census", "places" >>
    /\ ipc = "hrsa" => iattempted = << "census", "places", "cms" >>
    /\ ipc = "done" => iattempted = << "census", "places", "cms", "hrsa" >>
    /\ ipc = "exit1" => iwritten = << >> /\ Len(iattempted) <= 1

\* PLACES and HRSA raised, CMS did not: the command ended with success, the
\* Census rows and the CMS rows written
C7_Witness ==
    /\ ipc = "done"
    /\ ifailed = {"places", "hrsa"}
    /\ iattempted = << "census", "places", "cms", "hrsa" >>
    /\ Len(matches) = 1
    /\ Len(iwritten) = 1 + Len(all_vars) + Len(ACCESS_MEASURES.hospital_access)

\* the secondary sources of info: the prefix of their fields, the rows they
\* return, the field of a row that names its county, and their measures
InfoSources ==
    << [prefix |-> S.PLACES, key |-> K.locationname,
        rows |-> _pivot_rows(iupstream.places, K.data_value),
        measures |-> resolve_measures(<< "all" >>).measures],
       [prefix |-> S.Access, key |-> K.county,
        rows |-> fetch_access_data(iupstream.hospital_access),
        measures |-> resolve_access_measures(<< "all" >>).measures],
       [prefix |-> S.Shortage, key |-> K.county,
        rows |-> fetch_shortage_data(resolve_hpsa_measures(<< "all" >>).measures,
                                     iupstream),
        measures |-> resolve_hpsa_measures(<< "all" >>).measures] >>

\* line is a line of the source: its field is the prefix and a label
IsLineOf(line, src) ==
    \E j \in 1..Len(src.measures) : line[2] = src.prefix \o src.measures[j].label

\* line carries the value a row of the source named as the line has for the
\* measure of the line
CarriesOwnValue(line, src) ==
    \E k \in 1..Len(src.rows) :
        /\ clean_county_name(Get(src.rows[k], src.key, PyStr(S.empty)).s) = line[1]
        /\ \E j \in 1..Len(src.measures) :
               /\ line[2] = src.prefix \o src.measures[j].label
               /\ line[3] = CsvCell(Get(src.rows[k], src.measures[j].id,
                                        PyStr(S.empty)))

\* C28: every line of PLACES, of CMS and of HRSA that info writes under a
\* county name carries the value of the row of that county in the source.
C28_SecondaryLineIsOfItsCounty ==
    \A l \in 1..Len(iwritten) : \A s \in 1..Len(InfoSources) :
        IsLineOf(iwritten[l], InfoSources[s])
            => CarriesOwnValue(iwritten[l], InfoSources[s])

(***************************************************************************)
(* Claims about the columns of the aggregators.                            *)
(***************************************************************************)
\* the county a raw record counts for: the trimmed countyparish in title case
\* for a hospital, the county of the FIPS code for a feature; empty when the
\* record counts for no county
RecordCounty(rec) ==
    IF akind = "hospitals" THEN Title(Strip(GetStr(rec, K.countyparish)))
    ELSE LET fips == PyToStr(Get(rec, K.CMN_STATE_COUNTY_FIPS_CD, PyStr(S.empty)))
         IN  IF DictHas(MI_FIPS_TO_COUNTY, fips) THEN DictGet(MI_FIPS_TO_COUNTY, fips)
             ELSE << >>

\* the positions of the records of a county in the list aggregated
RecordsOf(county) == {i \in DOMAIN arecords : RecordCounty(arecords[i]) = county}

\* the population a feature reports, when it reports an integer
PopOf(rec) == Get(rec, K.HPSA_ESTIMATED_UNDERSERVED_POP, PyNone)
ValidPops(county) ==
    {i \in RecordsOf(county) : PopOf(arecords[i]) # PyNone /\ ToInt(PopOf(arecords[i])).ok}

RECURSIVE SumPops(_)
SumPops(at) ==
    IF at = {} THEN 0
    ELSE LET i == CHOOSE i \in at : TRUE
         IN  ToInt(PopOf(arecords[i])).n + SumPops(at \ {i})

\* C16: <prefix>_underserved_pop of a county is the sum of its valid
\* population observations, written as an integer; it is empty only when the
\* county has no valid observation (and the sum is 0).
C16_EmptySumOnlyWithoutObservations ==
    (akind = "hpsa" /\ apc = "done") =>
        \A r \in 1..Len(aout) :
            LET valid == ValidPops(aout[r][K.county].s)
                cell == aout[r][aprefix \o S.underserved_pop].s
            IN  IF cell = S.empty THEN valid = {} /\ SumPops(valid) = 0
                ELSE cell = IntStr(SumPops(valid))

\* the rating of a hospital or the score of a feature, when it is a number
Observation(rec) ==
    IF akind = "hospitals" THEN ParseFloat(GetStr(rec, K.hospital_overall_rating))
    ELSE IF Get(rec, K.HPSA_SCORE, PyNone) = PyNone THEN [ok |-> FALSE, x |-> Float(0, 0)]
    ELSE ToFloat(Get(rec, K.HPSA_SCORE, PyNone))

\* the valid observations of a county, in the order of the list
Observations(county) ==
    LET recs == SelectSeq(arecords,
                    LAMBDA rec : RecordCounty(rec) = county /\ Observation(rec).ok)
    IN  [i \in 1..Len(recs) |-> Observation(recs[i]).x]

\* the average column of the aggregation
AvgColumn == IF akind = "hospitals" THEN K.avg_hospital_rating
             ELSE aprefix \o S.hpsa_avg_score

Abs(n) == IF n < 0 THEN 0 - n ELSE n

\* cell is a number with one decimal no further than 0.05 from the mean of xs
IsMeanToOneDecimal(cell, xs) ==
    LET v == ParseFloat(cell)
        sum == FloatSum(xs)
        n == Len(xs)
    IN  /\ v.ok
        /\ DotAt(cell) = Len(cell) - 1
        /\ 20 * Abs(v.x.m * Pow10(sum.e) * n - sum.m * Pow10(v.x.e))
               <= Pow10(v.x.e) * Pow10(sum.e) * n

\* C17: the average column of a county is the mean of its valid observations
\* rounded to one decimal, and is empty exactly when the county has no valid
\* observation.
C17_AverageIsRoundedMeanOrEmpty ==
    (akind \in {"hospitals", "hpsa"} /\ apc = "done") =>
        \A r \in 1..Len(aout) :
            LET xs == Observations(aout[r][K.county].s)
                cell == aout[r][AvgColumn].s
            IN  IF xs = << >> THEN cell = S.empty
                ELSE IsMeanToOneDecimal(cell, xs)

\* three hospitals of Wayne rated 4, 4 and 3: the mean 3.666... is written 3.7
C17_Witness ==
    /\ akind = "hospitals"
    /\ apc = "done"
    /\ arecords = << HospitalPool[1], HospitalPool[2], HospitalPool[1] >>
    /\ Len(aout) = 1
    /\ aout[1][K.avg_hospital_rating] = PyStr(<< "3", ".", "7" >>)

\* the number of records of a county whose field passes a test
CountWhere(county, field, Test(_)) ==
    Cardinality({i \in RecordsOf(county) : Test(GetStr(arecords[i], field))})

\* C18: in the rows of _aggregate_hospitals_by_county, hospital_count is the
\* number of records of the county, and acute_care_hospitals,
\* critical_access_hospitals, emergency_services and birthing_friendly are the
\* numbers of those records whose field matches the expected value, the case
\* of the letters ignored.
C18_CountsMatchIgnoringCase ==
    (akind = "hospitals" /\ apc = "done") =>
        /\ {aout[r][K.county].s : r \in 1..Len(aout)}
               = {RecordCounty(arecords[i]) : i \in DOMAIN arecords} \ {<< >>}
        /\ \A r \in 1..Len(aout) :
              LET c == aout[r][K.county].s
              IN  /\ aout[r][K.hospital_count].n = Cardinality(RecordsOf(c))
                  /\ aout[r][K.acute_care_hospitals].n =
                         CountWhere(c, K.hospital_type,
                             LAMBDA v : ContainsIgnoringCase(S.AcuteCare, v))
                  /\ aout[r][K.critical_access_hospitals].n =
                         CountWhere(c, K.hospital_type,
                             LAMBDA v : ContainsIgnoringCase(S.CriticalAccess, v))
                  /\ aout[r][K.emergency_services].n =
                         CountWhere(c, K.emergency_services,
                             LAMBDA v : Lower(v) \in {S.yes, S.y, S.true})
                  /\ aout[r][K.birthing_friendly].n =
                         CountWhere(c, K.meets_criteria_for_birthing_friendly_designation,
                             LAMBDA v : Lower(v) = S.y)

\* a record whose county cannot be resolved: a countyparish that is empty or
\* all spaces, a FIPS code that MI_FIPS_TO_COUNTY lacks
Unresolved(rec) ==
    IF akind = "hospitals"
    THEN \A i \in 1..Len(GetStr(rec, K.countyparish)) :
             GetStr(rec, K.countyparish)[i] = " "
    ELSE \A i \in 1..Len(MI_FIPS_TO_COUNTY) :
             MI_FIPS_TO_COUNTY[i][1]
                 # PyToStr(Get(rec, K.CMN_STATE_COUNTY_FIPS_CD, PyStr(S.empty)))

\* xs without its i-th element
Remove(xs, i) == SubSeq(xs, 1, i - 1) \o SubSeq(xs, i + 1, Len(xs))

\* C19: a record whose county cannot be resolved is dropped without an error:
\* the rows are those of the list without the record.
C19_UnresolvedRecordIsDropped ==
    (akind \in {"hospitals", "hpsa"} /\ apc = "done") =>
        \A i \in DOMAIN arecords :
            Unresolved(arecords[i]) =>
                /\ aout = Aggregate(akind, aprefix, Remove(arecords, i))
                /\ Len(aout) <= Len(arecords) - 1

\* a hospital with a county of spaces, one of Wayne and one with no county:
\* the only row is that of Wayne, with one hospital
C19_Witness ==
    /\ akind = "hospitals"
    /\ apc = "done"
    /\ arecords = << HospitalPool[7], HospitalPool[1], HospitalPool[5] >>
    /\ Len(aout) = 1
    /\ aout[1][K.county] = PyStr(<< "W", "a", "y", "n", "e" >>)
    /\ aout[1][K.hospital_count] = PyInt(1)

\* the field that holds the county of a row returned
CountyField == IF akind = "pivot" THEN K.locationname ELSE K.county

\* the county a raw record falls into, empty when it falls into none
NormalizedCounty(rec) ==
    IF akind = "pivot" THEN clean_county_name(GetStr(rec, K.locationname))
    ELSE RecordCounty(rec)

\* the raw records an aggregation was called on
AllRecords == arecords \o amental

\* C22: the rows _aggregate_hospitals_by_county, _aggregate_hpsa_by_county,
\* fetch_shortage_data and _pivot_rows return are in strictly ascending
\* ordinal order of the county name, so no county has two rows, and every
\* record that counts for a county falls into the one row of that county.
C22_RowsStrictlyAscendingByCounty ==
    (akind \in {"hospitals", "hpsa", "shortage", "pivot"} /\ apc = "done") =>
        /\ \A i, j \in 1..Len(aout) :
               i < j => StrLess(aout[i][CountyField].s, aout[j][CountyField].s)
        /\ \A k \in DOMAIN AllRecords :
               (akind = "pivot" \/ NormalizedCounty(AllRecords[k]) # << >>) =>
                   Cardinality({r \in 1..Len(aout) :
                       aout[r][CountyField].s = NormalizedCounty(AllRecords[k])}) = 1

\* "St. Clair" and "Saint Clair" of PLACES, met after Wayne, fall into the one
\* row of Saint Clair, which comes before that of Wayne
C22_Witness ==
    /\ akind = "pivot"
    /\ apc = "done"
    /\ arecords = << PlacesPool[1], PlacesPool[4], PlacesPool[5] >>
    /\ Len(aout) = 2
    /\ aout[1][K.locationname] = PyStr(<< "S", "a", "i", "n", "t", " ", "C", "l", "a", "i", "r" >>)
    /\ aout[2][K.locationname] = PyStr(<< "W", "a", "y", "n", "e" >>)

\* the last record of a county and a measure in the list pivoted, 0 when the
\* county has no record of the measure
LastRecordOf(county, measureid) ==
    LET at == {k \in DOMAIN arecords :
                  /\ NormalizedCounty(arecords[k]) = county
                  /\ GetStr(arecords[k], K.measureid) = measureid}
    IN  IF at = {} THEN 0 ELSE CHOOSE k \in at : \A l \in at : l <= k

\* cell is the str of a float with at most 4 decimals, no further than
\* 0.00005 from raw / 100
IsHundredthTo4Decimals(cell, raw) ==
    LET v == ParseFloat(cell)
        x == ParseFloat(raw).x
    IN  /\ v.ok
        /\ DotAt(cell) \in (Len(cell) - 4)..(Len(cell) - 1)
        /\ cell = FloatStr(v.x)
        /\ 200 * Abs(v.x.m * 100 * Pow10(x.e) - x.m * Pow10(v.x.e))
               <= Pow10(x.e) * Pow10(v.x.e)

\* C23: the value _pivot_rows stores for a county and a measure is, for the
\* record it comes from, the raw value divided by 100 and rounded to 4
\* decimals, as a string, when the raw value is a number, and the raw value
\* itself when it is not.
C23_PivotStoresHundredthOrRaw ==
    (akind = "pivot" /\ apc = "done") =>
        \A r \in 1..Len(aout) : \A mid \in DOMAIN aout[r] \ {K.locationname} :
            LET k == LastRecordOf(aout[r][K.locationname].s, mid)
                raw == Get(arecords[k], K.data_value, PyStr(S.empty))
            IN  /\ k # 0
                /\ IF ParseFloat(raw.s).ok
                   THEN IsHundredthTo4Decimals(aout[r][mid].s, raw.s)
                   ELSE aout[r][mid] = raw

\* raw "12.3" of Wayne is stored as "0.123", raw "abc" stays "abc"
C23_Witness ==
    /\ akind = "pivot"
    /\ apc = "done"
    /\ arecords = << PlacesPool[1], PlacesPool[3] >>
    /\ GetStr(arecords[1], K.data_value) = << "1", "2", ".", "3" >>
    /\ GetStr(arecords[2], K.data_value) = << "a", "b", "c" >>
    /\ Len(aout) = 1
    /\ aout[1][<< "D", "I", "A", "B", "E", "T", "E", "S" >>] = PyStr(<< "0", ".", "1", "2", "3" >>)
    /\ aout[1][<< "C", "O", "P", "D" >>] = PyStr(<< "a", "b", "c" >>)

\* the cell of a county in a column of the rows, empty when the county has
\* no row
CellOf(rows, county, column) ==
    IF \E r \in 1..Len(rows) : rows[r][K.county].s = county
    THEN LET r == CHOOSE r \in 1..Len(rows) : rows[r][K.county].s = county
         IN  rows[r][column]
    ELSE PyStr(S.empty)

\* the count column and the columns computed from the ratings or scores, and
\* from the populations
CountColumn == IF akind = "hospitals" THEN K.hospital_count
               ELSE aprefix \o S.hpsa_count
ObservationColumns ==
    IF akind = "hospitals" THEN {K.avg_hospital_rating}
    ELSE {aprefix \o S.hpsa_avg_score, aprefix \o S.hpsa_max_score}
PopColumns == IF akind = "hospitals" THEN {} ELSE {aprefix \o S.underserved_pop}

\* a record that reports no population that is an integer
NoPop(rec) == PopOf(rec) = PyNone \/ ~ToInt(PopOf(rec)).ok

\* C27: a record of a county whose rating or score is missing or no number
\* changes no average and no maximum: they are those of the list without the
\* record; the same holds for the sum and a population that is missing or
\* no integer.  The record is counted in the count column of its county.
C27_InvalidValueIsLeftOutButCounted ==
    (akind \in {"hospitals", "hpsa"} /\ apc = "done") =>
        \A i \in DOMAIN arecords :
            LET county == RecordCounty(arecords[i])
                without == Aggregate(akind, aprefix, Remove(arecords, i))
            IN  county # << >> =>
                    /\ CellOf(aout, county, CountColumn)
                           = PyInt(Cardinality(RecordsOf(county)))
                    /\ ~Observation(arecords[i]).ok =>
                           \A c \in ObservationColumns :
                               CellOf(aout, county, c) = CellOf(without, county, c)
                    /\ (akind = "hpsa" /\ NoPop(arecords[i])) =>
                           \A c \in PopColumns :
                               CellOf(aout, county, c) = CellOf(without, county, c)

\* two features of Wayne with scores 20 and 10 and one without a score or a
\* population: three are counted, the average is that of the two
C27_Witness ==
    /\ akind = "hpsa"
    /\ apc = "done"
    /\ aprefix = S.pc
    /\ arecords = << FeaturePool[1], FeaturePool[5], FeaturePool[2] >>
    /\ Len(aout) = 1
    /\ aout[1][S.pc \o S.hpsa_count] = PyInt(3)
    /\ aout[1][S.pc \o S.hpsa_avg_score] = PyStr(<< "1", "5", ".", "0" >>)
    /\ aout[1][S.pc \o S.hpsa_max_score] = PyStr(<< "2", "0", ".", "0" >>)
    /\ aout[1][S.pc \o S.underserved_pop] = PyStr(<< "2", "0", "0", "0", "0" >>)

(***************************************************************************)
(* The resolvers of the measure groups, each called on a list of names.    *)
(***************************************************************************)
\* the longest list of names a resolver is called on
MaxSelectors == 2

\* the table of a resolver and its groups in the order of the table
TableOf(source) ==
    CASE source = "places" -> PLACES_MEASURES
      [] source = "cms" -> ACCESS_MEASURES
      [] source = "hrsa" -> HPSA_MEASURES
GroupsOf(source) ==
    CASE source = "places" -> PLACES_GROUPS
      [] source = "cms" -> ACCESS_GROUPS
      [] source = "hrsa" -> HPSA_GROUPS

\* the names given to a resolver: the groups of its table, "all", and a name
\* no table holds
SelectorNames(source) == Range(GroupsOf(source)) \cup {"all", "bogus"}

ResInit ==
    /\ rsource \in {"places", "cms", "hrsa"}
    /\ rgroups \in UNION {[1..n -> SelectorNames(rsource)] : n \in 0..MaxSelectors}
    /\ rpc = "call"
    /\ rmeasures = << >>

ResIdle ==
    /\ rsource = "none"
    /\ rgroups = << >>
    /\ rpc = "done"
    /\ rmeasures = << >>

\* the return or the ValueError of a resolver
Resolved(r) ==
    /\ rpc' = IF r.raised THEN "raised" ELSE "done"
    /\ rmeasures' = r.measures
    /\ UNCHANGED << rsource, rgroups >>
    /\ UNCHANGED resRest

ResolveMeasures ==
    /\ rsource = "places"
    /\ rpc = "call"
    /\ Resolved(resolve_measures(rgroups))

ResolveAccessMeasures ==
    /\ rsource = "cms"
    /\ rpc = "call"
    /\ Resolved(resolve_access_measures(rgroups))

ResolveHpsaMeasures ==
    /\ rsource = "hrsa"
    /\ rpc = "call"
    /\ Resolved(resolve_hpsa_measures(rgroups))

ResNext ==
    \/ ResolveMeasures
    \/ ResolveAccessMeasures
    \/ ResolveHpsaMeasures

\* C14: a list with a name that is neither a group of the table nor "all"
\* makes the resolver raise ValueError and yield no measure.
C14_UnknownSelectorRaises ==
    (/\ rpc \in {"done", "raised"}
     /\ \E i \in 1..Len(rgroups) :
            rgroups[i] \notin DOMAIN TableOf(rsource) \cup {"all"}) =>
        /\ rpc = "raised"
        /\ rmeasures = << >>

\* the measures of the table: one for each position of each group
TableMeasures(source) ==
    UNION {{<< g, i >> : i \in 1..Len(TableOf(source)[g])} :
               g \in DOMAIN TableOf(source)}

\* C15: a single valid group resolves to measures that ["all"] resolves to as
\* well, and ["all"] resolves to every measure of every group exactly once:
\* as many measures as the groups hold, no measure id twice.
C15_AllCoversEveryMeasureOnce ==
    /\ (rpc = "done" /\ Len(rgroups) = 1 /\ rgroups[1] \in DOMAIN TableOf(rsource)) =>
           /\ rmeasures = TableOf(rsource)[rgroups[1]]
           /\ Range(rmeasures) \subseteq
                  Range(ResolveGroups(TableOf(rsource), GroupsOf(rsource),
                                      << "all" >>).measures)
    /\ (rpc \in {"done", "raised"} /\ rgroups = << "all" >>) =>
           /\ rpc = "done"
           /\ Len(rmeasures) = Cardinality(TableMeasures(rsource))
           /\ \A p \in TableMeasures(rsource) :
                  \E i \in 1..Len(rmeasures) : rmeasures[i] = TableOf(rsource)[p[1]][p[2]]
           /\ \A i, j \in 1..Len(rmeasures) :
                  rmeasures[i].id = rmeasures[j].id => i = j

\* resolve_measures(["all"]) has returned the 31 measures of the six groups
C15_Witness ==
    /\ rsource = "places"
    /\ rgroups = << "all" >>
    /\ rpc = "done"
    /\ Len(rmeasures) = 31

(***************************************************************************)
(* format_value, called on one value under one format kind.                *)
(***************************************************************************)
\* the sentinels of the suppressed set, the empty string among them
SuppressedStrings ==
    {<< "-", "6", "6", "6", "6", "6", "6", "6", "6", "6" >>, << "-", "6", "6", "6", "6", "6", "6", "6", "6", "6", ".", "0" >>, << "n", "u", "l", "l" >>, << "-" >>, << "N", "o", "n", "e" >>, << >>}

\* the values format_value is called on: the sentinels, None, and strings
\* that are numbers or words
FormatValues ==
    {PyStr(s) : s \in SuppressedStrings} \cup {PyNone}
        \cup {PyStr(<< "1", "2", "3", "4", "5" >>), PyStr(<< "4", "5", "6", "7", "8", ".", "0" >>), PyStr(<< "3", ".", "7" >>), PyStr(<< "0" >>),
              PyStr(<< "0", ".", "0" >>), PyStr(<< "-", "5" >>), PyStr(<< "1", "2", ".", "3", "4" >>), PyStr(<< "a", "b", "c" >>),
              PyStr(<< " ", "n", "u", "l", "l" >>), PyStr(<< "N", "U", "L", "L" >>), PyStr(<< "N", "/", "A" >>)}

FormatKinds == {"number", "dollar", "percent", "decimal"}

FmtInit ==
    /\ vvalue \in FormatValues
    /\ vfmt \in FormatKinds
    /\ vpc = "call"
    /\ vout = S.empty

FmtIdle ==
    /\ vvalue = PyNone
    /\ vfmt = "none"
    /\ vpc = "done"
    /\ vout = S.empty

FormatValue ==
    /\ vpc = "call"
    /\ vout' = format_value(vvalue, vfmt)
    /\ vpc' = "done"
    /\ UNCHANGED << vvalue, vfmt >>
    /\ UNCHANGED fmtRest

FmtNext == FormatValue

\* C21: format_value returns the empty string for every sentinel of the
\* suppressed set and for None, under every format kind.
C21_SuppressedFormatsToEmpty ==
    (/\ vpc = "done"
     /\ vfmt \in FormatKinds
     /\ vvalue = PyNone \/ (vvalue.t = "str" /\ vvalue.s \in SuppressedStrings)) =>
        vout = S.empty

\* format_value("-666666666.0", "dollar") has returned ""
C21_Witness ==
    /\ vpc = "done"
    /\ vvalue = PyStr(<< "-", "6", "6", "6", "6", "6", "6", "6", "6", "6", ".", "0" >>)
    /\ vfmt = "dollar"
    /\ vout = S.empty

(***************************************************************************)
(* The specifications: one for each group of operations.                   *)
(***************************************************************************)
InitFetch == FetchInit /\ AggIdle /\ OutIdle /\ InfoIdle /\ ResIdle /\ FmtIdle
SpecFetch == InitFetch /\ [][FetchNext]_vars

\* a fetch runs its loop until it returns or raises: a turn that can be taken
\* is taken
SpecFetchRuns == InitFetch /\ [][FetchNext]_vars /\ WF_vars(FetchNext)

InitAgg == AggInit /\ FetchIdle /\ OutIdle /\ InfoIdle /\ ResIdle /\ FmtIdle
SpecAgg == InitAgg /\ [][AggNext]_vars

InitOut == OutInit /\ FetchIdle /\ AggIdle /\ InfoIdle /\ ResIdle /\ FmtIdle
SpecOut == InitOut /\ [][OutNext]_vars

InitInfo == InfoInit /\ FetchIdle /\ AggIdle /\ OutIdle /\ ResIdle /\ FmtIdle
SpecInfo == InitInfo /\ [][InfoNext]_vars

InitRes == ResInit /\ FetchIdle /\ AggIdle /\ OutIdle /\ InfoIdle /\ FmtIdle
SpecRes == InitRes /\ [][ResNext]_vars

InitFmt == FmtInit /\ FetchIdle /\ AggIdle /\ OutIdle /\ InfoIdle /\ ResIdle
SpecFmt == InitFmt /\ [][FmtNext]_vars

=============================================================================
